---- MODULE Spec2Model ----
(***************************************************************************)
(* node-infobip: a thin client over the Infobip REST API.                  *)
(*                                                                         *)
(* The repository holds three generations of the package side by side:     *)
(*   - src/index.js            the monolithic entry point (SMS, Settings,  *)
(*                             status, trimError in one file);             *)
(*   - src/helpers.js and the  TwoFA service of src/unnamed/part_002, whose *)
(*                             authorize step calls the authorize helper;  *)
(*   - src/unnamed/part_003,   the services that take an Auth instance     *)
(*     part_004, part_005      (TwoFA, Auth, Settings, SMS, entry point);  *)
(*   - src/docs/api/service_SMS.js.html, the SMS service with a per-call   *)
(*                             version override.                           *)
(* Definitions of src/index.js carry the prefix Idx_, those of part_002    *)
(* the prefix Hlp_, those of the docs listing the prefix Doc_.             *)
(*                                                                         *)
(* JavaScript values are records with a "type" field.  Strings that are    *)
(* concatenated or encoded character by character (credentials, headers)   *)
(* are sequences of one-character strings in the field "chars".            *)
(*                                                                         *)
(* Record constructors list their fields in the order in which the field   *)
(* names first occur in this module as identifiers: that is the order TLC  *)
(* normalizes a record to, so a record value shared by several workers is  *)
(* never reordered in place.                                               *)
(***************************************************************************)
EXTENDS Integers, Sequences, FiniteSets, TLC

VARIABLES
    auth,       \* the Auth instance held by the caller (Undefined before construction)
    authArgs,   \* the arguments that instance was constructed from
    client,     \* the last axios instance returned to the caller by Auth.axios / authorize
    last,       \* the last constructor or authorize statement: its arguments, and
                \* the exception it raised (Undefined when it completed)
    svc,        \* service instances: [Instances -> instance | Undefined]
    calls,      \* method invocations: [Tasks -> invocation record]
    failure,    \* the argument of the last trimError application
    normalized  \* the value that application returned

vars == <<auth, authArgs, client, last, svc, calls, failure, normalized>>

----------------------------------------------------------------------------
(* JavaScript values *)

Undefined == [type |-> "undefined"]
Null == [type |-> "null"]
Num(n) == [type |-> "number", num |-> n]
Str(s) == [type |-> "string", str |-> s]
CStr(c) == [type |-> "string", chars |-> c]
Obj(name) == [type |-> "object", name |-> name]

\* ToBoolean of the language: undefined, null, 0 and '' are falsy.
Truthy(v) ==
    CASE v.type = "undefined" -> FALSE
      [] v.type = "null" -> FALSE
      [] v.type = "number" -> v.num # 0
      [] v.type = "string" ->
            IF "chars" \in DOMAIN v THEN v.chars # <<>> ELSE v.str # ""
      [] OTHER -> TRUE

\* A default parameter value applies exactly when the argument is undefined.
Default(arg, dflt) == IF arg.type = "undefined" THEN dflt ELSE arg

\* ${v} inside a template literal.
Interp(v) ==
    CASE v.type = "number" -> ToString(v.num)
      [] v.type = "string" -> v.str
      [] v.type = "undefined" -> "undefined"
      [] v.type = "null" -> "null"
      [] OTHER -> "[object Object]"

\* new Error(message): carries neither a response nor a request.
Error(m) ==
    [type |-> "Error", name |-> "Error", isError |-> TRUE, message |-> m,
     response |-> Undefined, request |-> Undefined]

\* The exception of evaluating an identifier that no scope binds.
ReferenceError(id) ==
    [type |-> "Error", name |-> "ReferenceError", isError |-> TRUE,
     message |-> id \o " is not defined",
     response |-> Undefined, request |-> Undefined]

----------------------------------------------------------------------------
(* Error normalization *)

\* variant of trimError that looks at the request before the response
trimError_requestFirst(error) ==
    IF error.isError
    THEN IF Truthy(error.request)
         THEN error.request
         ELSE IF Truthy(error.response)
              THEN IF Truthy(error.response.data)
                   THEN error.response.data
                   ELSE error.response
              ELSE error
    ELSE error

\* variant of trimError that reduces an error without response or request to its message
trimError_messageOnly(error) ==
    IF error.isError
    THEN IF Truthy(error.response)
         THEN IF Truthy(error.response.data)
              THEN error.response.data
              ELSE error.response
         ELSE IF Truthy(error.request)
              THEN error.request
              ELSE Str(error.message)
    ELSE error

\* helpers.js trimError
\* variant of trimError that unwraps every value, Error instance or not
trimError_anyValue(error) ==
    IF Truthy(error.response)
    THEN IF Truthy(error.response.data)
         THEN error.response.data
         ELSE error.response
    ELSE IF Truthy(error.request)
         THEN error.request
         ELSE error

trimError(error) ==
    IF error.isError
    THEN IF Truthy(error.response)
         THEN IF Truthy(error.response.data)
              THEN error.response.data
              ELSE error.response
         ELSE IF Truthy(error.request)
              THEN error.request
              ELSE error
    ELSE error

\* variant of Idx_trimError that renames an error without response or request
Idx_trimError_renames(error) ==
    IF error.isError
    THEN IF Truthy(error.response)
         THEN IF Truthy(error.response.data)
              THEN error.response.data
              ELSE error.response
         ELSE IF Truthy(error.request)
              THEN error.request
              ELSE [error EXCEPT !.name = "InfobipError"]
    ELSE error

\* index.js trimError (a function declaration, hoisted over the whole file)
Idx_trimError(error) ==
    IF error.isError
    THEN IF Truthy(error.response)
         THEN IF Truthy(error.response.data)
              THEN error.response.data
              ELSE error.response
         ELSE IF Truthy(error.request)
              THEN error.request
              ELSE error
    ELSE error

----------------------------------------------------------------------------
(* Credentials *)

Basic == <<"B", "a", "s", "i", "c">>
App == <<"A", "p", "p">>
IBSSO == <<"I", "B", "S", "S", "O">>
OAuth == <<"O", "A", "u", "t", "h">>
Bearer == <<"B", "e", "a", "r", "e", "r">>
basic == <<"b", "a", "s", "i", "c">>

\* ['App', 'Basic', 'IBSSO']
AuthTypes == <<CStr(App), CStr(Basic), CStr(IBSSO)>>

\* Array.prototype.includes
Includes(arr, v) == \E k \in 1..Len(arr) : arr[k] = v

\* The UTF-8 byte of a character (all characters used are ASCII).
Ord(c) ==
    CASE c = ":" -> 58
      [] c = "_" -> 95
      [] c = "a" -> 97
      [] c = "b" -> 98
      [] c = "c" -> 99
      [] c = "k" -> 107
      [] c = "p" -> 112
      [] c = "t" -> 116
      [] c = "u" -> 117

\* Buffer.from(string): the bytes of the string.
BufferFrom(chars) == [k \in 1..Len(chars) |-> Ord(chars[k])]

B64Alphabet ==
    <<"A", "B", "C", "D", "E", "F", "G", "H", "I", "J", "K", "L", "M",
      "N", "O", "P", "Q", "R", "S", "T", "U", "V", "W", "X", "Y", "Z",
      "a", "b", "c", "d", "e", "f", "g", "h", "i", "j", "k", "l", "m",
      "n", "o", "p", "q", "r", "s", "t", "u", "v", "w", "x", "y", "z",
      "0", "1", "2", "3", "4", "5", "6", "7", "8", "9", "+", "/">>

B64Digit(n) == B64Alphabet[n + 1]

\* buffer.toString('base64'): standard alphabet, '=' padding.
RECURSIVE ToBase64(_)
ToBase64(bytes) ==
    IF Len(bytes) = 0 THEN <<>>
    ELSE IF Len(bytes) = 1
    THEN <<B64Digit(bytes[1] \div 4),
           B64Digit((bytes[1] % 4) * 16),
           "=", "=">>
    ELSE IF Len(bytes) = 2
    THEN <<B64Digit(bytes[1] \div 4),
           B64Digit((bytes[1] % 4) * 16 + bytes[2] \div 16),
           B64Digit((bytes[2] % 16) * 4),
           "=">>
    ELSE <<B64Digit(bytes[1] \div 4),
           B64Digit((bytes[1] % 4) * 16 + bytes[2] \div 16),
           B64Digit((bytes[2] % 16) * 4 + bytes[3] \div 64),
           B64Digit(bytes[3] % 64)>>
         \o ToBase64(SubSeq(bytes, 4, Len(bytes)))

\* variant of BasicSecret that joins the pair without the colon
BasicSecret_noColon(tokenKeyOrUsername, password) ==
    CStr(ToBase64(BufferFrom(tokenKeyOrUsername.chars \o password.chars)))

\* `${tokenKeyOrUsername}:${password}` encoded
BasicSecret(tokenKeyOrUsername, password) ==
    CStr(ToBase64(BufferFrom(tokenKeyOrUsername.chars \o <<":">> \o password.chars)))

InvalidAuthType == Error("Invalid authorization type.")

\* variant of AcceptOf in which only 'json' selects JSON
AcceptOf_xmlFallback(contentType) ==
    IF contentType = Str("json") THEN "application/json" ELSE "application/xml"

\* 'application/json' unless the content type is exactly 'xml'
AcceptOf(contentType) ==
    IF contentType = Str("xml") THEN "application/xml" ELSE "application/json"

\* axios.create({headers: {...}})
AxiosCreate(authorization, accept) ==
    [type |-> "axios",
     headers |-> [Authorization |-> authorization,
                  ContentType |-> accept,
                  Accept |-> accept]]

\* variant of AuthNew whose membership test lets every kind through
AuthNew_anyKind(authType, tokenKeyOrUsername, passwordArg) ==
    LET password == Default(passwordArg, CStr(<<>>)) IN
    [ok |-> TRUE,
     this |-> [type |-> "Auth",
               tokenKeyOrUsername |->
                   IF authType = CStr(Basic)
                   THEN BasicSecret(tokenKeyOrUsername, password)
                   ELSE tokenKeyOrUsername,
               authType |-> authType]]

\* Auth.constructor: the outcome of new Auth(authType, tokenKeyOrUsername, password)
AuthNew(authType, tokenKeyOrUsername, passwordArg) ==
    LET password == Default(passwordArg, CStr(<<>>)) IN
    IF ~Includes(AuthTypes, authType)
    THEN [error |-> InvalidAuthType, ok |-> FALSE]
    ELSE [ok |-> TRUE,
          this |-> [type |-> "Auth",
                    tokenKeyOrUsername |->
                        IF authType = CStr(Basic)
                        THEN BasicSecret(tokenKeyOrUsername, password)
                        ELSE tokenKeyOrUsername,
                    authType |-> authType]]

\* variant of AuthAxios that drops the space of the Authorization header
AuthAxios_noSpace(this, contentType) ==
    AxiosCreate(this.authType.chars \o this.tokenKeyOrUsername.chars,
                AcceptOf(contentType))

\* Auth.axios(contentType)
AuthAxios(this, contentType) ==
    AxiosCreate(this.authType.chars \o <<" ">> \o this.tokenKeyOrUsername.chars,
                AcceptOf(contentType))

\* helpers.js authorize(authType, tokenKeyOrUsername, password, contentType)
authorize(authType, tokenKeyOrUsername0, passwordArg, contentTypeArg) ==
    LET password == Default(passwordArg, CStr(<<>>))
        contentType == Default(contentTypeArg, Str("json"))
    IN  IF ~Includes(AuthTypes, authType)
        THEN [error |-> InvalidAuthType, ok |-> FALSE]
        ELSE LET tokenKeyOrUsername ==
                     IF authType = CStr(Basic)
                     THEN BasicSecret(tokenKeyOrUsername0, password)
                     ELSE tokenKeyOrUsername0
             IN  [ok |-> TRUE,
                  axios |-> AxiosCreate(authType.chars \o <<" ">> \o tokenKeyOrUsername.chars,
                                        AcceptOf(contentType))]

----------------------------------------------------------------------------
(* Bounds and input sets *)

MaxVersion == 3

Instances == {1}
Tasks == {1}

NoInstance == 0

VersionNumbers == {Num(n) : n \in 0..MaxVersion}

\* constructor arguments
CtorVersionArgs == {Undefined} \cup VersionNumbers
ContentTypeArgs == {Undefined, Str("json"), Str("xml"), Str("yaml")}
DefaultFromArgs == {Undefined, Str("CompanyA")}

\* per-call arguments
VersionArgs == {Undefined, Str("")} \cup VersionNumbers
IdArgs == {Undefined, Str(""), Str("id1")}
SecondIdArgs == {Undefined, Str("id2")}
ParamsArgs == {Undefined, Obj("params")}
FromArgs == {Undefined, Str(""), Str("MyCompany")}

\* credentials used with the services
KeyArgs == {CStr(<<"p", "k">>), CStr(<<"u">>)}
PasswordArgs == {Undefined, CStr(<<"p">>)}
AuthTypeArgs == {CStr(App), CStr(Basic), CStr(IBSSO), CStr(OAuth)}

----------------------------------------------------------------------------
(* The HTTP transport *)

RequestMarker == [type |-> "ClientRequest", isError |-> FALSE]

Response(status, data) ==
    [type |-> "response", isError |-> FALSE, data |-> data, status |-> status]

\* What axios rejects with: an Error that carries the response and the request
\* (non-2xx), only the request (no response received), or neither (the request
\* could not be set up); a cancelled request rejects with a Cancel object,
\* which is not an Error.
AxiosError(m, response, request) ==
    [type |-> "Error", name |-> "Error", isError |-> TRUE, message |-> m,
     response |-> response, request |-> request]

Cancel == [type |-> "Cancel", isError |-> FALSE, message |-> "canceled"]

HttpFailures ==
    { AxiosError("Request failed with status code 400",
                 Response(400, Obj("errorBody")), RequestMarker),
      AxiosError("Request failed with status code 500",
                 Response(500, Str("")), RequestMarker),
      AxiosError("Network Error", Undefined, RequestMarker),
      AxiosError("Invalid URL", Undefined, Undefined),
      Cancel }

HttpOutcomes ==
    { [response |-> Response(200, Obj("data")), ok |-> TRUE] }
    \cup { [error |-> f, ok |-> FALSE] : f \in HttpFailures }

----------------------------------------------------------------------------
(* Modules and the identifiers their top level binds *)

Scope(module) ==
    CASE module = "index.js" -> {"axios", "status", "SMS", "Settings", "trimError"}
      [] module = "part_002" -> {"authorize", "trimError", "TwoFA"}
      [] module = "part_003/TwoFA" -> {"trimError", "TwoFA"}
      [] module = "part_003/Settings" -> {"trimError", "Settings"}
      [] module = "part_004" -> {"trimError", "SMS"}
      [] module = "part_005" -> {"axios", "Auth", "Settings", "SMS", "TwoFA", "status"}
      [] module = "docs/SMS" -> {"trimError", "SMS"}

\* throw trimError(err) evaluated in a module
ThrowTrimError(module, err) ==
    IF "trimError" \notin Scope(module)
    THEN ReferenceError("trimError")
    ELSE IF module = "index.js" THEN Idx_trimError(err) ELSE trimError(err)

\* What leaves a method whose body raised err: through catch (err) { throw
\* trimError(err) } when the body is inside try, unchanged otherwise.
Raise(module, try, err) ==
    IF try THEN ThrowTrimError(module, err) ELSE err

----------------------------------------------------------------------------
(* Method invocations *)

Idle ==
    [svc |-> NoInstance, module |-> "", try |-> FALSE, pc |-> "idle", method |-> "",
     args |-> [none |-> TRUE], pre |-> Undefined, sent |-> 0, req |-> Undefined,
     rejected |-> Undefined, outcome |-> "none", value |-> Undefined]

Unauthorized == Error("Unauthorized API call.")
MissingApplicationId == Error("Please provide an applicationId.")
MissingMessageId == Error("Please provide a messageId.")
MissingParams == Error("Please provide params.")
MissingPinId == Error("Please provide a pinId.")
MissingPin == Error("Please provide a pin.")
MissingKey == Error("Please provide a key.")
MissingName == Error("Please provide a name.")

\* the synchronous part of a method body ends in a throw or in one request
Throw(e) == [value |-> e, throw |-> TRUE]
Send(verb, url, query, body, headers) ==
    [req |-> [headers |-> headers, verb |-> verb, url |-> url, query |-> query,
              body |-> body],
     throw |-> FALSE]

\* variant of Invoke in which a truthy per-call version is stored in the instance
Invoke_storesOverride(t, i, this, module, method, try, args, step) ==
    /\ calls[t].pc # "awaiting"
    /\ calls' = [calls EXCEPT ![t] =
          IF step.throw
          THEN [svc |-> i, module |-> module, try |-> try, pc |-> "settled",
                method |-> method, args |-> args, pre |-> this, sent |-> 0,
                req |-> Undefined, rejected |-> Undefined, outcome |-> "thrown",
                value |-> Raise(module, try, step.value)]
          ELSE [svc |-> i, module |-> module, try |-> try, pc |-> "awaiting",
                method |-> method, args |-> args, pre |-> this, sent |-> 1,
                req |-> step.req, rejected |-> Undefined, outcome |-> "none",
                value |-> Undefined]]
    /\ svc' = IF i \in Instances /\ "version" \in DOMAIN args /\ Truthy(args.version)
              THEN [svc EXCEPT ![i].version = args.version]
              ELSE svc
    /\ UNCHANGED <<auth, authArgs, client, last, failure, normalized>>

\* A method runs up to its await: a local failure rejects at once, otherwise
\* the request is issued and the invocation waits for the transport.
Invoke(t, i, this, module, method, try, args, step) ==
    /\ calls[t].pc # "awaiting"
    /\ calls' = [calls EXCEPT ![t] =
          IF step.throw
          THEN [svc |-> i, module |-> module, try |-> try, pc |-> "settled",
                method |-> method, args |-> args, pre |-> this, sent |-> 0,
                req |-> Undefined, rejected |-> Undefined, outcome |-> "thrown",
                value |-> Raise(module, try, step.value)]
          ELSE [svc |-> i, module |-> module, try |-> try, pc |-> "awaiting",
                method |-> method, args |-> args, pre |-> this, sent |-> 1,
                req |-> step.req, rejected |-> Undefined, outcome |-> "none",
                value |-> Undefined]]
    /\ UNCHANGED <<auth, authArgs, client, last, svc, failure, normalized>>

\* variant of Settle in which a rejected request is issued once more
Settle_retry(t) ==
    /\ calls[t].pc = "awaiting"
    /\ \E r \in HttpOutcomes :
          calls' = [calls EXCEPT ![t] =
              IF r.ok
              THEN [@ EXCEPT !.pc = "settled", !.outcome = "returned",
                             !.value = r.response.data]
              ELSE IF calls[t].sent = 1
              THEN [@ EXCEPT !.sent = 2]
              ELSE [@ EXCEPT !.pc = "settled", !.outcome = "thrown",
                             !.rejected = r.error,
                             !.value = Raise(calls[t].module, calls[t].try, r.error)]]
    /\ UNCHANGED <<auth, authArgs, client, last, svc, failure, normalized>>

\* The transport answers: return response.data, or the rejection is raised at
\* the await.
\* variant of Settle in which a rejected request detaches the client of the instance
Settle_detachesOnFailure(t) ==
    /\ calls[t].pc = "awaiting"
    /\ \E r \in HttpOutcomes :
          /\ calls' = [calls EXCEPT ![t] =
                IF r.ok
                THEN [@ EXCEPT !.pc = "settled", !.outcome = "returned",
                               !.value = r.response.data]
                ELSE [@ EXCEPT !.pc = "settled", !.outcome = "thrown",
                               !.rejected = r.error,
                               !.value = Raise(calls[t].module, calls[t].try, r.error)]]
          /\ svc' = IF ~r.ok /\ calls[t].svc \in DOMAIN svc
                    THEN [svc EXCEPT ![calls[t].svc].axios = Null]
                    ELSE svc
    /\ UNCHANGED <<auth, authArgs, client, last, failure, normalized>>

Settle(t) ==
    /\ calls[t].pc = "awaiting"
    /\ \E r \in HttpOutcomes :
          calls' = [calls EXCEPT ![t] =
              IF r.ok
              THEN [@ EXCEPT !.pc = "settled", !.outcome = "returned",
                             !.value = r.response.data]
              ELSE [@ EXCEPT !.pc = "settled", !.outcome = "thrown",
                             !.rejected = r.error,
                             !.value = Raise(calls[t].module, calls[t].try, r.error)]]
    /\ UNCHANGED <<auth, authArgs, client, last, svc, failure, normalized>>

IsA(i, type, module) ==
    /\ svc[i].type = type
    /\ svc[i].module = module

----------------------------------------------------------------------------
(* Construction and the authorize step *)

InvalidVersion == Error("Invalid version number.")
InvalidContentType == Error("Invalid content type.")

DefaultBaseUrl == Str("https://api.infobip.com")
BaseUrlArgs == {Undefined}
AccountKeyArgs == {Undefined}

Statement(op, args, error) == [error |-> error, args |-> args, op |-> op]

\* a constructor or authorize call that throws leaves every object as it was
Fail(op, args, e) ==
    /\ last' = Statement(op, args, e)
    /\ UNCHANGED <<auth, authArgs, client, svc, calls, failure, normalized>>

\* let x = new Class(...): the variable now refers to the new instance
Construct(i, op, args, this) ==
    /\ svc' = [svc EXCEPT ![i] = this]
    /\ last' = Statement(op, args, Undefined)
    /\ UNCHANGED <<auth, authArgs, client, calls, failure, normalized>>

\* variant of SetAxios in which authorizing an authorized instance detaches the client
SetAxios_toggle(i, op, args, ax) ==
    /\ svc' = [svc EXCEPT ![i].axios = IF Truthy(@) THEN Null ELSE ax]
    /\ last' = Statement(op, args, Undefined)
    /\ UNCHANGED <<auth, authArgs, client, calls, failure, normalized>>

\* this.axios = <client>
\* variant of SetAxios in which an attached client is kept by a later authorize
SetAxios_keepFirst(i, op, args, ax) ==
    /\ svc' = [svc EXCEPT ![i].axios = IF Truthy(@) THEN @ ELSE ax]
    /\ last' = Statement(op, args, Undefined)
    /\ UNCHANGED <<auth, authArgs, client, calls, failure, normalized>>

\* variant of SetAxios in which the client is attached to every constructed instance
SetAxios_shared(i, op, args, ax) ==
    /\ svc' = [j \in DOMAIN svc |->
                  IF svc[j] = Undefined THEN svc[j] ELSE [svc[j] EXCEPT !.axios = ax]]
    /\ last' = Statement(op, args, Undefined)
    /\ UNCHANGED <<auth, authArgs, client, calls, failure, normalized>>

SetAxios(i, op, args, ax) ==
    /\ svc' = [svc EXCEPT ![i].axios = ax]
    /\ last' = Statement(op, args, Undefined)
    /\ UNCHANGED <<auth, authArgs, client, calls, failure, normalized>>

\* new Auth(authType, tokenKeyOrUsername, password) assigned to the caller's variable
Auth_constructor(authType, tokenKeyOrUsername, password) ==
    LET r == AuthNew(authType, tokenKeyOrUsername, password)
        args == [tokenKeyOrUsername |-> tokenKeyOrUsername, password |-> password,
                 authType |-> authType]
    IN  IF r.ok
        THEN /\ auth' = r.this
             /\ authArgs' = args
             /\ last' = Statement("Auth_constructor", args, Undefined)
             /\ UNCHANGED <<client, svc, calls, failure, normalized>>
        ELSE Fail("Auth_constructor", args, r.error)

\* auth.axios(contentType) called by the caller directly
Auth_axios(contentType) ==
    /\ auth.type = "Auth"
    /\ client' = [axios |-> AuthAxios(auth, contentType), args |-> [auth |-> auth,
            contentType |-> contentType],
                  by |-> "Auth.axios"]
    /\ last' = Statement("Auth_axios", [contentType |-> contentType], Undefined)
    /\ UNCHANGED <<auth, authArgs, svc, calls, failure, normalized>>

\* helpers.authorize(...) called directly
Helpers_authorize(authType, tokenKeyOrUsername, password, contentType) ==
    LET r == authorize(authType, tokenKeyOrUsername, password, contentType)
        args == [tokenKeyOrUsername |-> tokenKeyOrUsername, password |-> password,
                 contentType |-> contentType, authType |-> authType]
    IN  IF r.ok
        THEN /\ client' = [axios |-> r.axios, args |-> args, by |-> "authorize"]
             /\ last' = Statement("Helpers_authorize", args, Undefined)
             /\ UNCHANGED <<auth, authArgs, svc, calls, failure, normalized>>
        ELSE Fail("Helpers_authorize", args, r.error)

\* variant of TwoFA_constructor that checks the content type before the version
TwoFA_constructor_contentTypeFirst(i, baseUrlArg, versionArg, contentTypeArg) ==
    LET baseUrl == Default(baseUrlArg, DefaultBaseUrl)
        version == Default(versionArg, Num(2))
        contentType == Default(contentTypeArg, Str("json"))
    IN  IF ~(contentType = Str("json") \/ contentType = Str("xml"))
        THEN Fail("TwoFA_constructor", [contentType |-> contentTypeArg,
                version |-> versionArg, baseUrl |-> baseUrlArg], InvalidContentType)
        ELSE IF version.num < 1 \/ version.num > 2
        THEN Fail("TwoFA_constructor", [contentType |-> contentTypeArg,
                version |-> versionArg, baseUrl |-> baseUrlArg], InvalidVersion)
        ELSE Construct(i, "TwoFA_constructor", [contentType |-> contentTypeArg,
                version |-> versionArg, baseUrl |-> baseUrlArg],
                       [type |-> "TwoFA", contentType |-> contentType,
                           axios |-> Null, module |-> "part_003/TwoFA",
                           version |-> version, baseUrl |-> baseUrl])

\* part_003 TwoFA.constructor
TwoFA_constructor(i, baseUrlArg, versionArg, contentTypeArg) ==
    LET baseUrl == Default(baseUrlArg, DefaultBaseUrl)
        version == Default(versionArg, Num(2))
        contentType == Default(contentTypeArg, Str("json"))
    IN  IF version.num < 1 \/ version.num > 2
        THEN Fail("TwoFA_constructor", [contentType |-> contentTypeArg,
                version |-> versionArg, baseUrl |-> baseUrlArg], InvalidVersion)
        ELSE IF ~(contentType = Str("json") \/ contentType = Str("xml"))
        THEN Fail("TwoFA_constructor", [contentType |-> contentTypeArg,
                version |-> versionArg, baseUrl |-> baseUrlArg], InvalidContentType)
        ELSE Construct(i, "TwoFA_constructor", [contentType |-> contentTypeArg,
                version |-> versionArg, baseUrl |-> baseUrlArg],
                       [type |-> "TwoFA", contentType |-> contentType,
                           axios |-> Null, module |-> "part_003/TwoFA",
                           version |-> version, baseUrl |-> baseUrl])

\* part_003 TwoFA.authorize(auth)
TwoFA_authorize(i) ==
    /\ IsA(i, "TwoFA", "part_003/TwoFA")
    /\ auth.type = "Auth"
    /\ SetAxios(i, "TwoFA_authorize", [auth |-> auth],
                     AuthAxios(auth, svc[i].contentType))

\* part_003 Settings.constructor
Settings_constructor(i, accountKeyArg, baseUrlArg, versionArg, contentTypeArg) ==
    LET accountKey == Default(accountKeyArg, Str("_"))
        baseUrl == Default(baseUrlArg, DefaultBaseUrl)
        version == Default(versionArg, Num(1))
        contentType == Default(contentTypeArg, Str("json"))
    IN  IF version.num < 1 \/ version.num > 2
        THEN Fail("Settings_constructor", [contentType |-> contentTypeArg,
                version |-> versionArg, baseUrl |-> baseUrlArg,
                     accountKey |-> accountKeyArg], InvalidVersion)
        ELSE IF ~(contentType = Str("json") \/ contentType = Str("xml"))
        THEN Fail("Settings_constructor", [contentType |-> contentTypeArg,
                version |-> versionArg, baseUrl |-> baseUrlArg,
                     accountKey |-> accountKeyArg], InvalidContentType)
        ELSE Construct(i, "Settings_constructor", [contentType |-> contentTypeArg,
                version |-> versionArg, baseUrl |-> baseUrlArg,
                     accountKey |-> accountKeyArg],
                       [type |-> "Settings", contentType |-> contentType,
                           axios |-> Null, module |-> "part_003/Settings",
                           version |-> version,
                           baseUrl |-> baseUrl, accountKey |-> accountKey])

\* variant of Settings_authorize that blanks the secret of the credential it was given
Settings_authorize_consumesAuth(i) ==
    /\ IsA(i, "Settings", "part_003/Settings")
    /\ auth.type = "Auth"
    /\ svc' = [svc EXCEPT ![i].axios = AuthAxios(auth, svc[i].contentType)]
    /\ last' = Statement("Settings_authorize", [auth |-> auth], Undefined)
    /\ auth' = [auth EXCEPT !.tokenKeyOrUsername = CStr(<<>>)]
    /\ UNCHANGED <<authArgs, client, calls, failure, normalized>>

\* part_003 Settings.authorize(auth)
Settings_authorize(i) ==
    /\ IsA(i, "Settings", "part_003/Settings")
    /\ auth.type = "Auth"
    /\ SetAxios(i, "Settings_authorize", [auth |-> auth],
                     AuthAxios(auth, svc[i].contentType))

\* part_004 SMS.constructor
\* variant of SMS_constructor that accepts every content type
SMS_constructor_anyContentType(i, defaultFromArg, baseUrlArg, versionArg, contentTypeArg) ==
    LET defaultFrom == Default(defaultFromArg, Str("INFO"))
        baseUrl == Default(baseUrlArg, DefaultBaseUrl)
        version == Default(versionArg, Num(1))
        contentType == Default(contentTypeArg, Str("json"))
    IN  IF version.num < 1 \/ version.num > 2
        THEN Fail("SMS_constructor", [contentType |-> contentTypeArg, version |-> versionArg,
                baseUrl |-> baseUrlArg,
                     defaultFrom |-> defaultFromArg], InvalidVersion)
        ELSE Construct(i, "SMS_constructor", [contentType |-> contentTypeArg,
                version |-> versionArg, baseUrl |-> baseUrlArg,
                     defaultFrom |-> defaultFromArg],
                       [type |-> "SMS", contentType |-> contentType,
                           axios |-> Null, module |-> "part_004",
                           version |-> version,
                           baseUrl |-> baseUrl, defaultFrom |-> defaultFrom])

SMS_constructor(i, defaultFromArg, baseUrlArg, versionArg, contentTypeArg) ==
    LET defaultFrom == Default(defaultFromArg, Str("INFO"))
        baseUrl == Default(baseUrlArg, DefaultBaseUrl)
        version == Default(versionArg, Num(1))
        contentType == Default(contentTypeArg, Str("json"))
    IN  IF version.num < 1 \/ version.num > 2
        THEN Fail("SMS_constructor", [contentType |-> contentTypeArg, version |-> versionArg,
                baseUrl |-> baseUrlArg,
                     defaultFrom |-> defaultFromArg], InvalidVersion)
        ELSE IF ~(contentType = Str("json") \/ contentType = Str("xml"))
        THEN Fail("SMS_constructor", [contentType |-> contentTypeArg, version |-> versionArg,
                baseUrl |-> baseUrlArg,
                     defaultFrom |-> defaultFromArg], InvalidContentType)
        ELSE Construct(i, "SMS_constructor", [contentType |-> contentTypeArg,
                version |-> versionArg, baseUrl |-> baseUrlArg,
                     defaultFrom |-> defaultFromArg],
                       [type |-> "SMS", contentType |-> contentType,
                           axios |-> Null, module |-> "part_004",
                           version |-> version,
                           baseUrl |-> baseUrl, defaultFrom |-> defaultFrom])

\* part_004 SMS.authorize(auth)
SMS_authorize(i) ==
    /\ IsA(i, "SMS", "part_004")
    /\ auth.type = "Auth"
    /\ SetAxios(i, "SMS_authorize", [auth |-> auth],
                     AuthAxios(auth, svc[i].contentType))

\* docs listing SMS.constructor
Doc_SMS_constructor(i, defaultFromArg, baseUrlArg, versionArg, contentTypeArg) ==
    LET defaultFrom == Default(defaultFromArg, Str("INFO"))
        baseUrl == Default(baseUrlArg, DefaultBaseUrl)
        version == Default(versionArg, Num(1))
        contentType == Default(contentTypeArg, Str("json"))
    IN  IF version.num < 1 \/ version.num > 2
        THEN Fail("Doc_SMS_constructor", [contentType |-> contentTypeArg,
                version |-> versionArg, baseUrl |-> baseUrlArg,
                     defaultFrom |-> defaultFromArg], InvalidVersion)
        ELSE IF ~(contentType = Str("json") \/ contentType = Str("xml"))
        THEN Fail("Doc_SMS_constructor", [contentType |-> contentTypeArg,
                version |-> versionArg, baseUrl |-> baseUrlArg,
                     defaultFrom |-> defaultFromArg], InvalidContentType)
        ELSE Construct(i, "Doc_SMS_constructor", [contentType |-> contentTypeArg,
                version |-> versionArg, baseUrl |-> baseUrlArg,
                     defaultFrom |-> defaultFromArg],
                       [type |-> "SMS", contentType |-> contentType,
                           axios |-> Null, module |-> "docs/SMS",
                           version |-> version,
                           baseUrl |-> baseUrl, defaultFrom |-> defaultFrom])

\* docs listing SMS.authorize(auth)
Doc_SMS_authorize(i) ==
    /\ IsA(i, "SMS", "docs/SMS")
    /\ auth.type = "Auth"
    /\ SetAxios(i, "Doc_SMS_authorize", [auth |-> auth],
                     AuthAxios(auth, svc[i].contentType))

\* part_002 TwoFA.constructor
Hlp_TwoFA_constructor(i, baseUrlArg, versionArg, contentTypeArg) ==
    LET baseUrl == Default(baseUrlArg, DefaultBaseUrl)
        version == Default(versionArg, Num(2))
        contentType == Default(contentTypeArg, Str("json"))
    IN  IF version.num < 1 \/ version.num > 2
        THEN Fail("Hlp_TwoFA_constructor", [contentType |-> contentTypeArg,
                version |-> versionArg, baseUrl |-> baseUrlArg], InvalidVersion)
        ELSE IF ~(contentType = Str("json") \/ contentType = Str("xml"))
        THEN Fail("Hlp_TwoFA_constructor", [contentType |-> contentTypeArg,
                version |-> versionArg, baseUrl |-> baseUrlArg], InvalidContentType)
        ELSE Construct(i, "Hlp_TwoFA_constructor", [contentType |-> contentTypeArg,
                version |-> versionArg, baseUrl |-> baseUrlArg],
                       [type |-> "TwoFA", contentType |-> contentType,
                           axios |-> Null, module |-> "part_002",
                           version |-> version, baseUrl |-> baseUrl])

\* part_002 TwoFA.authorize(authType, tokenKeyOrUsername, password)
Hlp_TwoFA_authorize(i, authType, tokenKeyOrUsername, passwordArg) ==
    /\ IsA(i, "TwoFA", "part_002")
    /\ LET password == Default(passwordArg, CStr(<<>>))
           r == authorize(authType, tokenKeyOrUsername, password, svc[i].contentType)
       IN  IF r.ok THEN SetAxios(i, "Hlp_TwoFA_authorize",
               [tokenKeyOrUsername |-> tokenKeyOrUsername, password |-> passwordArg,
                      authType |-> authType],
                     r.axios) ELSE Fail("Hlp_TwoFA_authorize",
                             [tokenKeyOrUsername |-> tokenKeyOrUsername,
                                     password |-> passwordArg,
                      authType |-> authType], r.error)

\* index.js SMS.constructor
Idx_SMS_constructor(i, defaultFromArg, baseUrlArg, versionArg, contentTypeArg) ==
    LET defaultFrom == Default(defaultFromArg, Str("INFO"))
        baseUrl == Default(baseUrlArg, DefaultBaseUrl)
        version == Default(versionArg, Num(1))
        contentType == Default(contentTypeArg, Str("json"))
    IN  IF version.num < 1 \/ version.num > 2
        THEN Fail("Idx_SMS_constructor", [contentType |-> contentTypeArg,
                version |-> versionArg, baseUrl |-> baseUrlArg,
                     defaultFrom |-> defaultFromArg], InvalidVersion)
        ELSE IF ~(contentType = Str("json") \/ contentType = Str("xml"))
        THEN Fail("Idx_SMS_constructor", [contentType |-> contentTypeArg,
                version |-> versionArg, baseUrl |-> baseUrlArg,
                     defaultFrom |-> defaultFromArg], InvalidContentType)
        ELSE Construct(i, "Idx_SMS_constructor", [contentType |-> contentTypeArg,
                version |-> versionArg, baseUrl |-> baseUrlArg,
                     defaultFrom |-> defaultFromArg],
                       [type |-> "SMS", contentType |-> contentType,
                           axios |-> Null, module |-> "index.js",
                           version |-> version,
                           baseUrl |-> baseUrl, defaultFrom |-> defaultFrom])

\* index.js SMS.authorize(authType, tokenKeyOrUsername, password)
\* variant of Idx_SMS_authorize that detaches the client before it checks the kind
Idx_SMS_authorize_resetsFirst(i, authType, tokenKeyOrUsername0, passwordArg) ==
    /\ IsA(i, "SMS", "index.js")
    /\ LET password == Default(passwordArg, CStr(<<>>)) IN
       IF ~Includes(AuthTypes, authType)
       THEN /\ svc' = [svc EXCEPT ![i].axios = Null]
            /\ last' = Statement("Idx_SMS_authorize",
                                 [tokenKeyOrUsername |-> tokenKeyOrUsername0,
                                  password |-> passwordArg,
                                  authType |-> authType], InvalidAuthType)
            /\ UNCHANGED <<auth, authArgs, client, calls, failure, normalized>>
       ELSE LET tokenKeyOrUsername ==
                    IF authType = CStr(Basic)
                    THEN BasicSecret(tokenKeyOrUsername0, password)
                    ELSE tokenKeyOrUsername0
                accept == IF svc[i].contentType = Str("xml")
                          THEN "application/xml" ELSE "application/json"
            IN  SetAxios(i, "Idx_SMS_authorize", [tokenKeyOrUsername |-> tokenKeyOrUsername0,
                    password |-> passwordArg,
                      authType |-> authType],
                     AxiosCreate(authType.chars \o <<" ">> \o tokenKeyOrUsername.chars,
                                        accept))

Idx_SMS_authorize(i, authType, tokenKeyOrUsername0, passwordArg) ==
    /\ IsA(i, "SMS", "index.js")
    /\ LET password == Default(passwordArg, CStr(<<>>)) IN
       IF ~Includes(AuthTypes, authType)
       THEN Fail("Idx_SMS_authorize", [tokenKeyOrUsername |-> tokenKeyOrUsername0,
               password |-> passwordArg,
                      authType |-> authType], InvalidAuthType)
       ELSE LET tokenKeyOrUsername ==
                    IF authType = CStr(Basic)
                    THEN BasicSecret(tokenKeyOrUsername0, password)
                    ELSE tokenKeyOrUsername0
                accept == IF svc[i].contentType = Str("xml")
                          THEN "application/xml" ELSE "application/json"
            IN  SetAxios(i, "Idx_SMS_authorize", [tokenKeyOrUsername |-> tokenKeyOrUsername0,
                    password |-> passwordArg,
                      authType |-> authType],
                     AxiosCreate(authType.chars \o <<" ">> \o tokenKeyOrUsername.chars,
                                        accept))

\* index.js Settings.constructor
Idx_Settings_constructor(i, accountKeyArg, baseUrlArg, versionArg, contentTypeArg) ==
    LET accountKey == Default(accountKeyArg, Str("_"))
        baseUrl == Default(baseUrlArg, DefaultBaseUrl)
        version == Default(versionArg, Num(1))
        contentType == Default(contentTypeArg, Str("json"))
    IN  IF version.num < 1 \/ version.num > 2
        THEN Fail("Idx_Settings_constructor", [contentType |-> contentTypeArg,
                version |-> versionArg, baseUrl |-> baseUrlArg,
                     accountKey |-> accountKeyArg], InvalidVersion)
        ELSE IF ~(contentType = Str("json") \/ contentType = Str("xml"))
        THEN Fail("Idx_Settings_constructor", [contentType |-> contentTypeArg,
                version |-> versionArg, baseUrl |-> baseUrlArg,
                     accountKey |-> accountKeyArg], InvalidContentType)
        ELSE Construct(i, "Idx_Settings_constructor", [contentType |-> contentTypeArg,
                version |-> versionArg, baseUrl |-> baseUrlArg,
                     accountKey |-> accountKeyArg],
                       [type |-> "Settings", contentType |-> contentType,
                           axios |-> Null, module |-> "index.js",
                           version |-> version,
                           baseUrl |-> baseUrl, accountKey |-> accountKey])

\* index.js Settings.authorize(authType, tokenKeyOrUsername, password)
Idx_Settings_authorize(i, authType, tokenKeyOrUsername0, passwordArg) ==
    /\ IsA(i, "Settings", "index.js")
    /\ LET password == Default(passwordArg, CStr(<<>>)) IN
       IF ~Includes(AuthTypes, authType)
       THEN Fail("Idx_Settings_authorize", [tokenKeyOrUsername |-> tokenKeyOrUsername0,
               password |-> passwordArg,
                      authType |-> authType], InvalidAuthType)
       ELSE LET tokenKeyOrUsername ==
                    IF authType = CStr(Basic)
                    THEN BasicSecret(tokenKeyOrUsername0, password)
                    ELSE tokenKeyOrUsername0
                accept == IF svc[i].contentType = Str("xml")
                          THEN "application/xml" ELSE "application/json"
            IN  SetAxios(i, "Idx_Settings_authorize",
                    [tokenKeyOrUsername |-> tokenKeyOrUsername0, password |-> passwordArg,
                      authType |-> authType],
                     AxiosCreate(authType.chars \o <<" ">> \o tokenKeyOrUsername.chars,
                                        accept))

----------------------------------------------------------------------------
(* part_003: TwoFA methods.  A URL `${a}/${b}/...` is the sequence of its   *)
(* segments; the query string is kept apart.                               *)

\* variant of getApps that never falls back to the instance version
TwoFA_getApps_noFallback(t, i, versionArg) ==
    /\ IsA(i, "TwoFA", "part_003/TwoFA")
    /\ LET this == svc[i]
           version == Default(versionArg, Num(1))
       IN  Invoke(t, i, this, this.module, "getApps", TRUE, [version |-> versionArg],
              IF ~Truthy(this.axios) THEN Throw(Unauthorized)
              ELSE Send("GET",
                        <<Interp(this.baseUrl), "2fa", Interp(version), "applications">>,
                        "", Undefined, this.axios.headers))

TwoFA_getApps(t, i, versionArg) ==
    /\ IsA(i, "TwoFA", "part_003/TwoFA")
    /\ LET this == svc[i]
           version0 == Default(versionArg, Num(1))
           version == IF ~Truthy(version0) THEN this.version ELSE version0
       IN  Invoke(t, i, this, this.module, "getApps", TRUE, [version |-> versionArg],
              IF ~Truthy(this.axios) THEN Throw(Unauthorized)
              ELSE Send("GET",
                        <<Interp(this.baseUrl), "2fa", Interp(version), "applications">>,
                        "", Undefined, this.axios.headers))

\* variant of TwoFA_getApp that keeps a truthy per-call version in the instance
TwoFA_getApp_storesVersion(t, i, applicationId, versionArg) ==
    /\ IsA(i, "TwoFA", "part_003/TwoFA")
    /\ calls[t].pc # "awaiting"
    /\ LET this == svc[i]
           version0 == Default(versionArg, Num(1))
           version == IF ~Truthy(version0) THEN this.version ELSE version0
           step == IF ~Truthy(this.axios) THEN Throw(Unauthorized)
                   ELSE IF ~Truthy(applicationId) THEN Throw(MissingApplicationId)
                   ELSE Send("GET",
                             <<Interp(this.baseUrl), "2fa", Interp(version), "applications",
                               Interp(applicationId)>>,
                             "", Undefined, this.axios.headers)
       IN  /\ calls' = [calls EXCEPT ![t] =
                 IF step.throw
                 THEN [svc |-> i, module |-> this.module, try |-> TRUE, pc |-> "settled",
                       method |-> "getApp",
                       args |-> [version |-> versionArg, applicationId |-> applicationId],
                       pre |-> this, sent |-> 0, req |-> Undefined,
                       rejected |-> Undefined, outcome |-> "thrown",
                       value |-> Raise(this.module, TRUE, step.value)]
                 ELSE [svc |-> i, module |-> this.module, try |-> TRUE, pc |-> "awaiting",
                       method |-> "getApp",
                       args |-> [version |-> versionArg, applicationId |-> applicationId],
                       pre |-> this, sent |-> 1, req |-> step.req,
                       rejected |-> Undefined, outcome |-> "none", value |-> Undefined]]
           /\ svc' = [svc EXCEPT ![i].version = version]
    /\ UNCHANGED <<auth, authArgs, client, last, failure, normalized>>

TwoFA_getApp(t, i, applicationId, versionArg) ==
    /\ IsA(i, "TwoFA", "part_003/TwoFA")
    /\ LET this == svc[i]
           version0 == Default(versionArg, Num(1))
           version == IF ~Truthy(version0) THEN this.version ELSE version0
       IN  Invoke(t, i, this, this.module, "getApp", TRUE,
              [version |-> versionArg, applicationId |-> applicationId],
              IF ~Truthy(this.axios) THEN Throw(Unauthorized)
              ELSE IF ~Truthy(applicationId) THEN Throw(MissingApplicationId)
              ELSE Send("GET",
                        <<Interp(this.baseUrl), "2fa", Interp(version), "applications",
                          Interp(applicationId)>>,
                        "", Undefined, this.axios.headers))

TwoFA_newApp(t, i, params, versionArg) ==
    /\ IsA(i, "TwoFA", "part_003/TwoFA")
    /\ LET this == svc[i]
           version0 == Default(versionArg, Num(1))
           version == IF ~Truthy(version0) THEN this.version ELSE version0
       IN  Invoke(t, i, this, this.module, "newApp", FALSE,
              [version |-> versionArg, params |-> params],
              IF ~Truthy(this.axios) THEN Throw(Unauthorized)
              ELSE IF ~Truthy(params) THEN Throw(MissingParams)
              ELSE Send("POST",
                        <<Interp(this.baseUrl), "2fa", Interp(version), "applications">>,
                        "", params, this.axios.headers))

TwoFA_updateApp(t, i, applicationId, params, versionArg) ==
    /\ IsA(i, "TwoFA", "part_003/TwoFA")
    /\ LET this == svc[i]
           version0 == Default(versionArg, Num(1))
           version == IF ~Truthy(version0) THEN this.version ELSE version0
       IN  Invoke(t, i, this, this.module, "updateApp", FALSE,
              [version |-> versionArg, applicationId |-> applicationId, params |-> params],
              IF ~Truthy(this.axios) THEN Throw(Unauthorized)
              ELSE IF ~Truthy(applicationId) THEN Throw(MissingApplicationId)
              ELSE IF ~Truthy(params) THEN Throw(MissingParams)
              ELSE Send("PUT",
                        <<Interp(this.baseUrl), "2fa", Interp(version), "applications",
                          Interp(applicationId)>>,
                        "", params, this.axios.headers))

TwoFA_getMessageTemplates(t, i, applicationId, versionArg) ==
    /\ IsA(i, "TwoFA", "part_003/TwoFA")
    /\ LET this == svc[i]
           version0 == Default(versionArg, Num(1))
           version == IF ~Truthy(version0) THEN this.version ELSE version0
       IN  Invoke(t, i, this, this.module, "getMessageTemplates", TRUE,
              [version |-> versionArg, applicationId |-> applicationId],
              IF ~Truthy(this.axios) THEN Throw(Unauthorized)
              ELSE IF ~Truthy(applicationId) THEN Throw(MissingApplicationId)
              ELSE Send("GET",
                        <<Interp(this.baseUrl), "2fa", Interp(version), "applications",
                          Interp(applicationId), "messages">>,
                        "", Undefined, this.axios.headers))

TwoFA_newMessageTemplate(t, i, applicationId, params, versionArg) ==
    /\ IsA(i, "TwoFA", "part_003/TwoFA")
    /\ LET this == svc[i]
           version0 == Default(versionArg, Num(1))
           version == IF ~Truthy(version0) THEN this.version ELSE version0
       IN  Invoke(t, i, this, this.module, "newMessageTemplate", FALSE,
              [version |-> versionArg, applicationId |-> applicationId, params |-> params],
              IF ~Truthy(this.axios) THEN Throw(Unauthorized)
              ELSE IF ~Truthy(applicationId) THEN Throw(MissingApplicationId)
              ELSE IF ~Truthy(params) THEN Throw(MissingParams)
              ELSE Send("POST",
                        <<Interp(this.baseUrl), "2fa", Interp(version), "applications",
                          Interp(applicationId), "messages">>,
                        "", params, this.axios.headers))

\* variant of updateMessageTemplate that checks the arguments before the client
TwoFA_updateMessageTemplate_argsFirst(t, i, applicationId, messageId, params, versionArg) ==
    /\ IsA(i, "TwoFA", "part_003/TwoFA")
    /\ LET this == svc[i]
           version0 == Default(versionArg, Num(1))
           version == IF ~Truthy(version0) THEN this.version ELSE version0
       IN  Invoke(t, i, this, this.module, "updateMessageTemplate", FALSE,
              [version |-> versionArg, applicationId |-> applicationId,
               params |-> params, messageId |-> messageId],
              IF ~Truthy(applicationId) THEN Throw(MissingApplicationId)
              ELSE IF ~Truthy(messageId) THEN Throw(MissingMessageId)
              ELSE IF ~Truthy(params) THEN Throw(MissingParams)
              ELSE IF ~Truthy(this.axios) THEN Throw(Unauthorized)
              ELSE Send("PUT",
                        <<Interp(this.baseUrl), "2fa", Interp(version), "applications",
                          Interp(applicationId), "messages", Interp(messageId)>>,
                        "", params, this.axios.headers))

TwoFA_updateMessageTemplate(t, i, applicationId, messageId, params, versionArg) ==
    /\ IsA(i, "TwoFA", "part_003/TwoFA")
    /\ LET this == svc[i]
           version0 == Default(versionArg, Num(1))
           version == IF ~Truthy(version0) THEN this.version ELSE version0
       IN  Invoke(t, i, this, this.module, "updateMessageTemplate", FALSE,
              [version |-> versionArg, applicationId |-> applicationId,
               params |-> params, messageId |-> messageId],
              IF ~Truthy(this.axios) THEN Throw(Unauthorized)
              ELSE IF ~Truthy(applicationId) THEN Throw(MissingApplicationId)
              ELSE IF ~Truthy(messageId) THEN Throw(MissingMessageId)
              ELSE IF ~Truthy(params) THEN Throw(MissingParams)
              ELSE Send("PUT",
                        <<Interp(this.baseUrl), "2fa", Interp(version), "applications",
                          Interp(applicationId), "messages", Interp(messageId)>>,
                        "", params, this.axios.headers))

TwoFA_sendPin(t, i, params, versionArg) ==
    /\ IsA(i, "TwoFA", "part_003/TwoFA")
    /\ LET this == svc[i]
           version0 == Default(versionArg, Num(1))
           version == IF ~Truthy(version0) THEN this.version ELSE version0
       IN  Invoke(t, i, this, this.module, "sendPin", FALSE,
              [version |-> versionArg, params |-> params],
              IF ~Truthy(this.axios) THEN Throw(Unauthorized)
              ELSE IF ~Truthy(params) THEN Throw(MissingParams)
              ELSE Send("POST",
                        <<Interp(this.baseUrl), "2fa", Interp(version), "pin">>,
                        "", params, this.axios.headers))

\* variant of TwoFA_resendPin that asks for the resend with a GET
TwoFA_resendPin_get(t, i, pinId, versionArg) ==
    /\ IsA(i, "TwoFA", "part_003/TwoFA")
    /\ LET this == svc[i]
           version0 == Default(versionArg, Num(1))
           version == IF ~Truthy(version0) THEN this.version ELSE version0
       IN  Invoke(t, i, this, this.module, "resendPin", FALSE,
              [version |-> versionArg, pinId |-> pinId],
              IF ~Truthy(this.axios) THEN Throw(Unauthorized)
              ELSE IF ~Truthy(pinId) THEN Throw(MissingPinId)
              ELSE Send("GET",
                        <<Interp(this.baseUrl), "2fa", Interp(version), "pin",
                          Interp(pinId), "resend">>,
                        "", Undefined, this.axios.headers))

TwoFA_resendPin(t, i, pinId, versionArg) ==
    /\ IsA(i, "TwoFA", "part_003/TwoFA")
    /\ LET this == svc[i]
           version0 == Default(versionArg, Num(1))
           version == IF ~Truthy(version0) THEN this.version ELSE version0
       IN  Invoke(t, i, this, this.module, "resendPin", FALSE,
              [version |-> versionArg, pinId |-> pinId],
              IF ~Truthy(this.axios) THEN Throw(Unauthorized)
              ELSE IF ~Truthy(pinId) THEN Throw(MissingPinId)
              ELSE Send("POST",
                        <<Interp(this.baseUrl), "2fa", Interp(version), "pin",
                          Interp(pinId), "resend">>,
                        "", Undefined, this.axios.headers))

\* variant of TwoFA_verifyPin that posts the pin without checking its presence
TwoFA_verifyPin_pinUnchecked(t, i, pinId, pin, versionArg) ==
    /\ IsA(i, "TwoFA", "part_003/TwoFA")
    /\ LET this == svc[i]
           version0 == Default(versionArg, Num(1))
           version == IF ~Truthy(version0) THEN this.version ELSE version0
       IN  Invoke(t, i, this, this.module, "verifyPin", FALSE,
              [version |-> versionArg, pinId |-> pinId, pin |-> pin],
              IF ~Truthy(this.axios) THEN Throw(Unauthorized)
              ELSE IF ~Truthy(pinId) THEN Throw(MissingPinId)
              ELSE Send("POST",
                        <<Interp(this.baseUrl), "2fa", Interp(version), "pin",
                          Interp(pinId), "verify">>,
                        "", [type |-> "object", pin |-> pin], this.axios.headers))

TwoFA_verifyPin(t, i, pinId, pin, versionArg) ==
    /\ IsA(i, "TwoFA", "part_003/TwoFA")
    /\ LET this == svc[i]
           version0 == Default(versionArg, Num(1))
           version == IF ~Truthy(version0) THEN this.version ELSE version0
       IN  Invoke(t, i, this, this.module, "verifyPin", FALSE,
              [version |-> versionArg, pinId |-> pinId, pin |-> pin],
              IF ~Truthy(this.axios) THEN Throw(Unauthorized)
              ELSE IF ~Truthy(pinId) THEN Throw(MissingPinId)
              ELSE IF ~Truthy(pin) THEN Throw(MissingPin)
              ELSE Send("POST",
                        <<Interp(this.baseUrl), "2fa", Interp(version), "pin",
                          Interp(pinId), "verify">>,
                        "", [type |-> "object", pin |-> pin], this.axios.headers))

----------------------------------------------------------------------------
(* part_003: Settings methods *)

Settings_getApiKeys(t, i, enabledArg) ==
    /\ IsA(i, "Settings", "part_003/Settings")
    /\ LET this == svc[i]
           enabled == Default(enabledArg, Str(""))
       IN  Invoke(t, i, this, this.module, "getApiKeys", TRUE, [enabled |-> enabledArg],
              IF ~Truthy(this.axios) THEN Throw(Unauthorized)
              ELSE Send("GET",
                        <<Interp(this.baseUrl), "settings", Interp(this.version), "accounts",
                          Interp(this.accountKey), "api-keys">>,
                        IF Truthy(enabled) THEN "?enabled=" \o Interp(enabled) ELSE "",
                        Undefined, this.axios.headers))

Settings_getApiKey(t, i, key) ==
    /\ IsA(i, "Settings", "part_003/Settings")
    /\ LET this == svc[i]
       IN  Invoke(t, i, this, this.module, "getApiKey", TRUE, [key |-> key],
              IF ~Truthy(this.axios) THEN Throw(Unauthorized)
              ELSE IF ~Truthy(key) THEN Throw(MissingKey)
              ELSE Send("GET",
                        <<Interp(this.baseUrl), "settings", Interp(this.version), "accounts",
                          Interp(this.accountKey), "api-keys", Interp(key)>>,
                        "", Undefined, this.axios.headers))

Settings_getApiKeyByPublicKey(t, i, key) ==
    /\ IsA(i, "Settings", "part_003/Settings")
    /\ LET this == svc[i]
       IN  Invoke(t, i, this, this.module, "getApiKeyByPublicKey", FALSE, [key |-> key],
              IF ~Truthy(this.axios) THEN Throw(Unauthorized)
              ELSE IF ~Truthy(key) THEN Throw(MissingKey)
              ELSE Send("GET",
                        <<Interp(this.baseUrl), "settings", Interp(this.version), "accounts",
                          Interp(this.accountKey), "api-keys">>,
                        "?publicApiKey=" \o Interp(key),
                        Undefined, this.axios.headers))

Settings_getApiKeyByName(t, i, name) ==
    /\ IsA(i, "Settings", "part_003/Settings")
    /\ LET this == svc[i]
       IN  Invoke(t, i, this, this.module, "getApiKeyByName", FALSE, [name |-> name],
              IF ~Truthy(this.axios) THEN Throw(Unauthorized)
              ELSE IF ~Truthy(name) THEN Throw(MissingName)
              ELSE Send("GET",
                        <<Interp(this.baseUrl), "settings", Interp(this.version), "accounts",
                          Interp(this.accountKey), "api-keys">>,
                        "?name=" \o Interp(name),
                        Undefined, this.axios.headers))

Settings_newApiKey(t, i, params) ==
    /\ IsA(i, "Settings", "part_003/Settings")
    /\ LET this == svc[i]
       IN  Invoke(t, i, this, this.module, "newApiKey", FALSE, [params |-> params],
              IF ~Truthy(this.axios) THEN Throw(Unauthorized)
              ELSE IF ~Truthy(params) THEN Throw(MissingParams)
              ELSE Send("POST",
                        <<Interp(this.baseUrl), "settings", Interp(this.version), "accounts",
                          Interp(this.accountKey), "api-keys">>,
                        "", params, this.axios.headers))

Settings_updateApiKey(t, i, key, params) ==
    /\ IsA(i, "Settings", "part_003/Settings")
    /\ LET this == svc[i]
       IN  Invoke(t, i, this, this.module, "updateApiKey", FALSE,
              [params |-> params, key |-> key],
              IF ~Truthy(this.axios) THEN Throw(Unauthorized)
              ELSE IF ~Truthy(key) THEN Throw(MissingKey)
              ELSE IF ~Truthy(params) THEN Throw(MissingParams)
              ELSE Send("PUT",
                        <<Interp(this.baseUrl), "settings", Interp(this.version), "accounts",
                          Interp(this.accountKey), "api-keys", Interp(key)>>,
                        "", params, this.axios.headers))

----------------------------------------------------------------------------
(* part_004: SMS methods *)

SmsBody(from, to, text) == [type |-> "object", from |-> from, to |-> to, text |-> text]

\* variant of SMS_single that sends the from argument as it was given
SMS_single_noDefault(t, i, to, text, fromArg) ==
    /\ IsA(i, "SMS", "part_004")
    /\ LET this == svc[i]
           from == Default(fromArg, Str(""))
       IN  Invoke(t, i, this, this.module, "single", TRUE,
              [from |-> fromArg, to |-> to, text |-> text],
              IF ~Truthy(this.axios) THEN Throw(Unauthorized)
              ELSE Send("POST",
                        <<Interp(this.baseUrl), "sms", Interp(this.version), "text", "single">>,
                        "", SmsBody(from, to, text), this.axios.headers))

SMS_single(t, i, to, text, fromArg) ==
    /\ IsA(i, "SMS", "part_004")
    /\ LET this == svc[i]
           from0 == Default(fromArg, Str(""))
           from == IF ~Truthy(from0) THEN this.defaultFrom ELSE from0
       IN  Invoke(t, i, this, this.module, "single", TRUE,
              [from |-> fromArg, to |-> to, text |-> text],
              IF ~Truthy(this.axios) THEN Throw(Unauthorized)
              ELSE Send("POST",
                        <<Interp(this.baseUrl), "sms", Interp(this.version), "text", "single">>,
                        "", SmsBody(from, to, text), this.axios.headers))

SMS_getReportByMessageId(t, i, messageId) ==
    /\ IsA(i, "SMS", "part_004")
    /\ LET this == svc[i]
       IN  Invoke(t, i, this, this.module, "getReportByMessageId", TRUE,
              [messageId |-> messageId],
              IF ~Truthy(this.axios) THEN Throw(Unauthorized)
              ELSE Send("GET",
                        <<Interp(this.baseUrl), "sms", Interp(this.version), "reports">>,
                        "?messageId=" \o Interp(messageId),
                        Undefined, this.axios.headers))

----------------------------------------------------------------------------
(* docs listing of service/SMS.js: SMS methods with a per-call version *)

Doc_SMS_single(t, i, to, text, fromArg, versionArg) ==
    /\ IsA(i, "SMS", "docs/SMS")
    /\ LET this == svc[i]
           from0 == Default(fromArg, Str(""))
           version0 == Default(versionArg, Num(2))
           version == IF ~Truthy(version0) THEN this.version ELSE version0
           from == IF ~Truthy(from0) THEN this.defaultFrom ELSE from0
       IN  Invoke(t, i, this, this.module, "single", TRUE,
              [version |-> versionArg, from |-> fromArg, to |-> to, text |-> text],
              IF ~Truthy(this.axios) THEN Throw(Unauthorized)
              ELSE Send("POST",
                        <<Interp(this.baseUrl), "sms", Interp(version), "text", "single">>,
                        "", SmsBody(from, to, text), this.axios.headers))

Doc_SMS_getReportByMessageId(t, i, messageId, versionArg) ==
    /\ IsA(i, "SMS", "docs/SMS")
    /\ LET this == svc[i]
           version0 == Default(versionArg, Num(2))
           version == IF ~Truthy(version0) THEN this.version ELSE version0
       IN  Invoke(t, i, this, this.module, "getReportByMessageId", TRUE,
              [version |-> versionArg, messageId |-> messageId],
              IF ~Truthy(this.axios) THEN Throw(Unauthorized)
              ELSE Send("GET",
                        <<Interp(this.baseUrl), "sms", Interp(version), "reports">>,
                        "?messageId=" \o Interp(messageId),
                        Undefined, this.axios.headers))

----------------------------------------------------------------------------
(* part_002: TwoFA methods *)

Hlp_TwoFA_getApps(t, i) ==
    /\ IsA(i, "TwoFA", "part_002")
    /\ LET this == svc[i]
       IN  Invoke(t, i, this, this.module, "getApps", TRUE, [none |-> TRUE],
              IF ~Truthy(this.axios) THEN Throw(Unauthorized)
              ELSE Send("GET",
                        <<Interp(this.baseUrl), "2fa", Interp(this.version), "applications">>,
                        "", Undefined, this.axios.headers))

Hlp_TwoFA_getApp(t, i, applicationId) ==
    /\ IsA(i, "TwoFA", "part_002")
    /\ LET this == svc[i]
       IN  Invoke(t, i, this, this.module, "getApp", TRUE, [applicationId |-> applicationId],
              IF ~Truthy(this.axios) THEN Throw(Unauthorized)
              ELSE IF ~Truthy(applicationId) THEN Throw(MissingApplicationId)
              ELSE Send("GET",
                        <<Interp(this.baseUrl), "2fa", Interp(this.version), "applications",
                          Interp(applicationId)>>,
                        "", Undefined, this.axios.headers))

Hlp_TwoFA_newApp(t, i, params) ==
    /\ IsA(i, "TwoFA", "part_002")
    /\ LET this == svc[i]
       IN  Invoke(t, i, this, this.module, "newApp", FALSE, [params |-> params],
              IF ~Truthy(this.axios) THEN Throw(Unauthorized)
              ELSE IF ~Truthy(params) THEN Throw(MissingParams)
              ELSE Send("POST",
                        <<Interp(this.baseUrl), "2fa", Interp(this.version), "applications">>,
                        "", params, this.axios.headers))

Hlp_TwoFA_updateApp(t, i, applicationId, params) ==
    /\ IsA(i, "TwoFA", "part_002")
    /\ LET this == svc[i]
       IN  Invoke(t, i, this, this.module, "updateApp", FALSE,
              [applicationId |-> applicationId, params |-> params],
              IF ~Truthy(this.axios) THEN Throw(Unauthorized)
              ELSE IF ~Truthy(applicationId) THEN Throw(MissingApplicationId)
              ELSE IF ~Truthy(params) THEN Throw(MissingParams)
              ELSE Send("PUT",
                        <<Interp(this.baseUrl), "2fa", Interp(this.version), "applications",
                          Interp(applicationId)>>,
                        "", params, this.axios.headers))

----------------------------------------------------------------------------
(* index.js: SMS and Settings methods, and the module-level status check *)

\* axios.get(url, {headers: {'Accept': accept}}) on the global axios
StatusRequest(baseUrl, contentType) ==
    Send("GET", <<Interp(baseUrl), "status">>, "", Undefined,
         [Accept |-> IF contentType = Str("xml")
                     THEN "application/xml" ELSE "application/json"])

Idx_SMS_status(t, i) ==
    /\ IsA(i, "SMS", "index.js")
    /\ LET this == svc[i]
       IN  Invoke(t, i, this, this.module, "status", TRUE, [none |-> TRUE],
              StatusRequest(this.baseUrl, this.contentType))

Idx_SMS_single(t, i, to, text, fromArg) ==
    /\ IsA(i, "SMS", "index.js")
    /\ LET this == svc[i]
           from0 == Default(fromArg, Str(""))
           from == IF ~Truthy(from0) THEN this.defaultFrom ELSE from0
       IN  Invoke(t, i, this, this.module, "single", TRUE,
              [from |-> fromArg, to |-> to, text |-> text],
              IF ~Truthy(this.axios) THEN Throw(Unauthorized)
              ELSE Send("POST",
                        <<Interp(this.baseUrl), "sms", Interp(this.version), "text", "single">>,
                        "", SmsBody(from, to, text), this.axios.headers))

Idx_SMS_getReportByMessageId(t, i, messageId) ==
    /\ IsA(i, "SMS", "index.js")
    /\ LET this == svc[i]
       IN  Invoke(t, i, this, this.module, "getReportByMessageId", TRUE,
              [messageId |-> messageId],
              IF ~Truthy(this.axios) THEN Throw(Unauthorized)
              ELSE Send("GET",
                        <<Interp(this.baseUrl), "sms", Interp(this.version), "reports">>,
                        "?messageId=" \o Interp(messageId),
                        Undefined, this.axios.headers))

Idx_Settings_getApiKeys(t, i, enabledArg) ==
    /\ IsA(i, "Settings", "index.js")
    /\ LET this == svc[i]
           enabled == Default(enabledArg, Str(""))
       IN  Invoke(t, i, this, this.module, "getApiKeys", TRUE, [enabled |-> enabledArg],
              IF ~Truthy(this.axios) THEN Throw(Unauthorized)
              ELSE Send("GET",
                        <<Interp(this.baseUrl), "settings", Interp(this.version), "accounts",
                          Interp(this.accountKey), "api-keys">>,
                        IF Truthy(enabled) THEN "?enabled=" \o Interp(enabled) ELSE "",
                        Undefined, this.axios.headers))

Idx_Settings_getApiKey(t, i, key) ==
    /\ IsA(i, "Settings", "index.js")
    /\ LET this == svc[i]
       IN  Invoke(t, i, this, this.module, "getApiKey", TRUE, [key |-> key],
              IF ~Truthy(this.axios) THEN Throw(Unauthorized)
              ELSE IF ~Truthy(key) THEN Throw(MissingKey)
              ELSE Send("GET",
                        <<Interp(this.baseUrl), "settings", Interp(this.version), "accounts",
                          Interp(this.accountKey), "api-keys", Interp(key)>>,
                        "", Undefined, this.axios.headers))

Idx_Settings_getApiKeyByPublicKey(t, i, key) ==
    /\ IsA(i, "Settings", "index.js")
    /\ LET this == svc[i]
       IN  Invoke(t, i, this, this.module, "getApiKeyByPublicKey", FALSE, [key |-> key],
              IF ~Truthy(this.axios) THEN Throw(Unauthorized)
              ELSE IF ~Truthy(key) THEN Throw(MissingKey)
              ELSE Send("GET",
                        <<Interp(this.baseUrl), "settings", Interp(this.version), "accounts",
                          Interp(this.accountKey), "api-keys">>,
                        "?publicApiKey=" \o Interp(key),
                        Undefined, this.axios.headers))

Idx_Settings_getApiKeyByName(t, i, name) ==
    /\ IsA(i, "Settings", "index.js")
    /\ LET this == svc[i]
       IN  Invoke(t, i, this, this.module, "getApiKeyByName", FALSE, [name |-> name],
              IF ~Truthy(this.axios) THEN Throw(Unauthorized)
              ELSE IF ~Truthy(name) THEN Throw(MissingName)
              ELSE Send("GET",
                        <<Interp(this.baseUrl), "settings", Interp(this.version), "accounts",
                          Interp(this.accountKey), "api-keys">>,
                        "?name=" \o Interp(name),
                        Undefined, this.axios.headers))

\* index.js status(contentType, baseUrl)
Idx_status(t, contentTypeArg, baseUrlArg) ==
    LET contentType == Default(contentTypeArg, Str("json"))
        baseUrl == Default(baseUrlArg, DefaultBaseUrl)
    IN  Invoke(t, NoInstance, Undefined, "index.js", "status", TRUE,
               [contentType |-> contentTypeArg, baseUrl |-> baseUrlArg],
               StatusRequest(baseUrl, contentType))

\* part_005 status(contentType, baseUrl)
status(t, contentTypeArg, baseUrlArg) ==
    LET contentType == Default(contentTypeArg, Str("json"))
        baseUrl == Default(baseUrlArg, DefaultBaseUrl)
    IN  Invoke(t, NoInstance, Undefined, "part_005", "status", TRUE,
               [contentType |-> contentTypeArg, baseUrl |-> baseUrlArg],
               StatusRequest(baseUrl, contentType))

----------------------------------------------------------------------------
(* Applying the normalization to a value on its own *)

Helpers_trimError ==
    /\ normalized' = [value |-> trimError(failure), by |-> "helpers.js", of |-> failure]
    /\ UNCHANGED <<auth, authArgs, client, last, svc, calls, failure>>

Index_trimError ==
    /\ normalized' = [value |-> Idx_trimError(failure), by |-> "index.js", of |-> failure]
    /\ UNCHANGED <<auth, authArgs, client, last, svc, calls, failure>>

----------------------------------------------------------------------------
(* Specifications *)

ToArgs == {Str(""), Str("41793026727")}
TextArgs == {Str(""), Str("Hello there!")}
EnabledArgs == {Undefined, Str("true")}
SvcAuthTypeArgs == {CStr(App), CStr(OAuth)}
SvcKeyArgs == {CStr(<<"p", "k">>)}
SvcPasswordArgs == {Undefined}
\* kinds given to the authorize methods that take the credentials themselves
DirectAuthTypeArgs == SvcAuthTypeArgs \cup {CStr(IBSSO)}

NoStatement == Statement("", [none |-> TRUE], Undefined)

NotApplied == [value |-> Undefined, by |-> "", of |-> Undefined]

Init ==
    /\ auth = Undefined
    /\ authArgs = Undefined
    /\ client = Undefined
    /\ last = NoStatement
    /\ svc = [i \in Instances |-> Undefined]
    /\ calls = [t \in Tasks |-> Idle]
    /\ failure = Undefined
    /\ normalized = NotApplied

\* the caller's credential variable is assigned by one successful construction
NewAuth ==
    /\ auth = Undefined
    /\ \E authType \in SvcAuthTypeArgs, key \in SvcKeyArgs, password \in SvcPasswordArgs :
          Auth_constructor(authType, key, password)

\* each instance variable is assigned by one successful construction
Construction(i) ==
    /\ svc[i] = Undefined
    /\ \E b \in BaseUrlArgs, v \in CtorVersionArgs, c \in ContentTypeArgs :
        \/ TwoFA_constructor(i, b, v, c)
        \/ Hlp_TwoFA_constructor(i, b, v, c)
        \/ \E a \in AccountKeyArgs :
              \/ Settings_constructor(i, a, b, v, c)
              \/ Idx_Settings_constructor(i, a, b, v, c)
        \/ \E f \in DefaultFromArgs :
              \/ SMS_constructor(i, f, b, v, c)
              \/ Doc_SMS_constructor(i, f, b, v, c)
              \/ Idx_SMS_constructor(i, f, b, v, c)

Authorization(i) ==
    \/ TwoFA_authorize(i)
    \/ Settings_authorize(i)
    \/ SMS_authorize(i)
    \/ Doc_SMS_authorize(i)
    \/ \E authType \in DirectAuthTypeArgs, key \in SvcKeyArgs, password \in SvcPasswordArgs :
          \/ Hlp_TwoFA_authorize(i, authType, key, password)
          \/ Idx_SMS_authorize(i, authType, key, password)
          \/ Idx_Settings_authorize(i, authType, key, password)

TwoFAMethods(t, i) ==
    \E v \in VersionArgs :
        \/ TwoFA_getApps(t, i, v)
        \/ \E id \in IdArgs :
              \/ TwoFA_getApp(t, i, id, v)
              \/ TwoFA_getMessageTemplates(t, i, id, v)
              \/ TwoFA_resendPin(t, i, id, v)
              \/ \E pin \in SecondIdArgs : TwoFA_verifyPin(t, i, id, pin, v)
              \/ \E p \in ParamsArgs :
                    \/ TwoFA_updateApp(t, i, id, p, v)
                    \/ TwoFA_newMessageTemplate(t, i, id, p, v)
                    \/ \E m \in SecondIdArgs : TwoFA_updateMessageTemplate(t, i, id, m, p, v)
        \/ \E p \in ParamsArgs :
              \/ TwoFA_newApp(t, i, p, v)
              \/ TwoFA_sendPin(t, i, p, v)

SettingsMethods(t, i) ==
    \/ \E e \in EnabledArgs : Settings_getApiKeys(t, i, e)
    \/ \E k \in IdArgs :
          \/ Settings_getApiKey(t, i, k)
          \/ Settings_getApiKeyByPublicKey(t, i, k)
          \/ Settings_getApiKeyByName(t, i, k)
          \/ \E p \in ParamsArgs : Settings_updateApiKey(t, i, k, p)
    \/ \E p \in ParamsArgs : Settings_newApiKey(t, i, p)

SMSMethods(t, i) ==
    \/ \E to \in ToArgs, text \in TextArgs, from \in FromArgs :
          \/ SMS_single(t, i, to, text, from)
          \/ Idx_SMS_single(t, i, to, text, from)
          \/ \E v \in VersionArgs : Doc_SMS_single(t, i, to, text, from, v)
    \/ \E m \in IdArgs :
          \/ SMS_getReportByMessageId(t, i, m)
          \/ Idx_SMS_getReportByMessageId(t, i, m)
          \/ \E v \in VersionArgs : Doc_SMS_getReportByMessageId(t, i, m, v)
    \/ Idx_SMS_status(t, i)

EarlierMethods(t, i) ==
    \/ Hlp_TwoFA_getApps(t, i)
    \/ \E id \in IdArgs :
          \/ Hlp_TwoFA_getApp(t, i, id)
          \/ \E p \in ParamsArgs : Hlp_TwoFA_updateApp(t, i, id, p)
    \/ \E p \in ParamsArgs : Hlp_TwoFA_newApp(t, i, p)
    \/ \E e \in EnabledArgs : Idx_Settings_getApiKeys(t, i, e)
    \/ \E k \in IdArgs :
          \/ Idx_Settings_getApiKey(t, i, k)
          \/ Idx_Settings_getApiKeyByPublicKey(t, i, k)
          \/ Idx_Settings_getApiKeyByName(t, i, k)

StatusChecks(t) ==
    \E c \in ContentTypeArgs, b \in BaseUrlArgs :
        \/ status(t, c, b)
        \/ Idx_status(t, c, b)

Next ==
    \/ NewAuth
    \/ \E i \in Instances : Construction(i) \/ Authorization(i)
    \/ \E t \in Tasks :
          \/ \E i \in Instances :
                \/ TwoFAMethods(t, i)
                \/ SettingsMethods(t, i)
                \/ SMSMethods(t, i)
                \/ EarlierMethods(t, i)
          \/ StatusChecks(t)
          \/ Settle(t)

Spec == Init /\ [][Next]_vars

----------------------------------------------------------------------------
(* The credential on its own: construction and client derivation over a     *)
(* wider range of kinds, secrets and content types.                         *)

MaxKeyLen == 2
MaxPasswordLen == 2

KeyWord == <<"u", "k", "a", "b">>
PasswordWord == <<"p", "c", "t", "_">>

CredKeyArgs == {CStr(SubSeq(KeyWord, 1, n)) : n \in 1..MaxKeyLen}
CredPasswordArgs ==
    {Undefined} \cup {CStr(SubSeq(PasswordWord, 1, n)) : n \in 0..MaxPasswordLen}
CredAuthTypeArgs ==
    {CStr(App), CStr(Basic), CStr(IBSSO), CStr(OAuth), CStr(Bearer), CStr(basic)}

InitAuth == Init

\* a program of the Auth class: let auth = new Auth(...), then
\* let client = auth.axios(...); a program of the helper: let client =
\* authorize(...).  Each variable is assigned by one successful statement.
NextAuth ==
    \/ /\ auth = Undefined
       /\ client = Undefined
       /\ \E authType \in CredAuthTypeArgs, key \in CredKeyArgs,
             password \in CredPasswordArgs :
             \/ Auth_constructor(authType, key, password)
             \/ \E contentType \in ContentTypeArgs :
                   Helpers_authorize(authType, key, password, contentType)
    \/ /\ client = Undefined
       /\ \E contentType \in ContentTypeArgs : Auth_axios(contentType)

SpecAuth == InitAuth /\ [][NextAuth]_vars

----------------------------------------------------------------------------
(* The normalization on its own, over every shape of failure value *)

BodyValues == {Undefined, Null, Str(""), Num(0), Obj("errorBody"), Str("<error/>")}
StatusValues == {400, 500}
ResponseValues ==
    {Undefined} \cup {Response(st, d) : st \in StatusValues, d \in BodyValues}
RequestValues == {Undefined, RequestMarker}

\* Error instances and plain objects with the same properties
FailureValues ==
    { [type |-> IF e THEN "Error" ELSE "Object", name |-> "Error", isError |-> e,
       message |-> "failed", response |-> rs, request |-> rq] :
         e \in BOOLEAN, rs \in ResponseValues, rq \in RequestValues }

InitTrim ==
    /\ auth = Undefined
    /\ authArgs = Undefined
    /\ client = Undefined
    /\ last = NoStatement
    /\ svc = [i \in Instances |-> Undefined]
    /\ calls = [t \in Tasks |-> Idle]
    /\ failure \in FailureValues
    /\ normalized = NotApplied

NextTrim == Helpers_trimError \/ Index_trimError

SpecTrim == InitTrim /\ [][NextTrim]_vars

----------------------------------------------------------------------------
(* Two logical tasks calling methods of one instance: a call may be started *)
(* by one task while the request of the other is still in flight.          *)

ConcTasks == {1, 2}

ConcIdArgs == {Str("id1"), Str("id2")}
ConcVersionArgs == {Undefined, Str(""), Num(1)}
ConcFromArgs == {Undefined, Str("MyCompany")}

InitConc ==
    /\ auth = Undefined
    /\ authArgs = Undefined
    /\ client = Undefined
    /\ last = NoStatement
    /\ svc = [i \in Instances |-> Undefined]
    /\ calls = [t \in ConcTasks |-> Idle]
    /\ failure = Undefined
    /\ normalized = NotApplied

NextConc ==
    \/ NewAuth
    \/ \E i \in Instances :
          \/ /\ svc[i] = Undefined
             /\ \/ TwoFA_constructor(i, Undefined, Undefined, Undefined)
                \/ \E f \in DefaultFromArgs :
                      SMS_constructor(i, f, Undefined, Undefined, Undefined)
          \/ TwoFA_authorize(i)
          \/ SMS_authorize(i)
    \/ \E t \in ConcTasks :
          \/ \E i \in Instances :
                \/ \E id \in ConcIdArgs, v \in ConcVersionArgs : TwoFA_getApp(t, i, id, v)
                \/ \E from \in ConcFromArgs :
                      SMS_single(t, i, Str("41793026727"), Str("Hello there!"), from)
          \/ Settle(t)

SpecConc == InitConc /\ [][NextConc]_vars

----------------------------------------------------------------------------

(* A caller that changes identity: it builds one Credential after another   *)
(* and re-invokes the authorize step of the same instance, calling methods  *)
(* in between from two tasks.                                              *)

ReauthKindArgs == {CStr(App), CStr(IBSSO)}
ReauthKeyArgs == {CStr(<<"p", "k">>)}

InitReauth == InitConc

\* auth = new Auth(...): the caller's variable may be assigned again
AnotherAuth ==
    \E authType \in ReauthKindArgs, key \in ReauthKeyArgs :
        Auth_constructor(authType, key, Undefined)

NextReauth ==
    \/ AnotherAuth
    \/ \E i \in Instances :
          \/ /\ svc[i] = Undefined
             /\ \/ TwoFA_constructor(i, Undefined, Undefined, Undefined)
                \/ Hlp_TwoFA_constructor(i, Undefined, Undefined, Undefined)
          \/ TwoFA_authorize(i)
          \/ \E authType \in ReauthKindArgs, key \in ReauthKeyArgs :
                Hlp_TwoFA_authorize(i, authType, key, Undefined)
    \/ \E t \in ConcTasks :
          \/ \E i \in Instances :
                \/ TwoFA_getApps(t, i, Undefined)
                \/ Hlp_TwoFA_getApps(t, i)
          \/ Settle(t)

SpecReauth == InitReauth /\ [][NextReauth]_vars

----------------------------------------------------------------------------

(* One Credential shared by two service instances of any class and format.  *)

ShareInstances == {1, 2}
ShareContentTypeArgs == {Undefined, Str("json"), Str("xml")}

InitShare ==
    /\ auth = Undefined
    /\ authArgs = Undefined
    /\ client = Undefined
    /\ last = NoStatement
    /\ svc = [i \in ShareInstances |-> Undefined]
    /\ calls = [t \in Tasks |-> Idle]
    /\ failure = Undefined
    /\ normalized = NotApplied

NextShare ==
    \/ NewAuth
    \/ \E i \in ShareInstances :
          \/ /\ svc[i] = Undefined
             /\ \E c \in ShareContentTypeArgs :
                   \/ TwoFA_constructor(i, Undefined, Undefined, c)
                   \/ Settings_constructor(i, Undefined, Undefined, Undefined, c)
                   \/ SMS_constructor(i, Undefined, Undefined, Undefined, c)
          \/ TwoFA_authorize(i)
          \/ Settings_authorize(i)
          \/ SMS_authorize(i)
    \/ \E t \in Tasks :
          \/ \E i \in ShareInstances :
                \/ TwoFA_getApps(t, i, Undefined)
                \/ Settings_getApiKeys(t, i, Undefined)
                \/ SMS_single(t, i, Str("41793026727"), Str("Hello there!"), Undefined)
          \/ Settle(t)

SpecShare == InitShare /\ [][NextShare]_vars

----------------------------------------------------------------------------

(* Properties *)

ValidKinds == {CStr(Basic), CStr(App), CStr(IBSSO)}

\* the version segment of `${baseUrl}/${service}/${version}/...`
Versioned(req) == Len(req.url) >= 3
PathVersion(req) == req.url[3]

\* C1: whenever the HTTP call of a service method fails, the caller observes
\* the normalized failure (trimError of the rejection), never the raw one.
C1_RemoteFailuresNormalized ==
    \A t \in Tasks :
        LET c == calls[t] IN
        (c.svc # NoInstance /\ c.pc = "settled" /\ c.rejected # Undefined)
            => c.value = trimError(c.rejected)

\* the one service method that does not use the attached client
IsInstanceStatus(c) == c.module = "index.js" /\ c.method = "status"

\* C2 as stated: on an instance without a client every service method fails
\* with the Unauthorized error, whatever its arguments.
C2_EveryMethodUnauthorized ==
    \A t \in Tasks :
        LET c == calls[t] IN
        (c.svc # NoInstance /\ c.pc # "idle" /\ ~Truthy(c.pre.axios))
            => (c.outcome = "thrown" /\ c.value = Unauthorized)

\* C2 amended: on an instance without a client every service method that uses
\* the attached client fails with the Unauthorized error and sends nothing,
\* whatever its arguments; SMS.status of index.js, which uses no client,
\* issues its request all the same.
C2_UnauthorizedBeforeAuthorize ==
    \A t \in Tasks :
        LET c == calls[t] IN
        (c.svc # NoInstance /\ c.pc # "idle" /\ ~Truthy(c.pre.axios))
            => IF IsInstanceStatus(c)
               THEN c.sent = 1
               ELSE c.outcome = "thrown" /\ c.value = Unauthorized /\ c.sent = 0

C2_Witness ==
    \E t \in Tasks :
        LET c == calls[t] IN
        /\ c.svc # NoInstance
        /\ ~Truthy(c.pre.axios)
        /\ c.method = "updateMessageTemplate"
        /\ c.args.applicationId = Str("")
        /\ c.args.params = Undefined
        /\ c.outcome = "thrown"
        /\ c.value = Unauthorized

HasOverride(c) == "version" \in DOMAIN c.args

\* the default value of the version parameter in the method signature
MethodDefaultVersion(c) == IF c.module = "docs/SMS" THEN Num(2) ELSE Num(1)

\* C3 as stated: the path version is the stored version when the override is
\* falsy or not supplied, and the override otherwise.
C3_UnsetUsesStoredVersion ==
    \A t \in Tasks :
        LET c == calls[t] IN
        (HasOverride(c) /\ c.sent = 1)
            => PathVersion(c.req) =
                  Interp(IF ~Truthy(c.args.version) THEN c.pre.version ELSE c.args.version)

\* C3 amended: the path version is the stored version when the override is
\* supplied and falsy (0, ''), the default of the method's version parameter
\* (1 in TwoFA, 2 in SMS) when it is not supplied, and the override otherwise.
C3_VersionResolution ==
    \A t \in Tasks :
        LET c == calls[t] IN
        (HasOverride(c) /\ c.sent = 1)
            => PathVersion(c.req) =
                  Interp(IF c.args.version = Undefined THEN MethodDefaultVersion(c)
                         ELSE IF ~Truthy(c.args.version) THEN c.pre.version
                         ELSE c.args.version)

C3_Witness ==
    \E t \in Tasks :
        LET c == calls[t] IN
        /\ HasOverride(c)
        /\ c.sent = 1
        /\ c.args.version = Str("")
        /\ c.pre.version = Num(2)
        /\ PathVersion(c.req) = "2"

\* the rules of the normalization, first match wins
FirstMatchingRule(f) ==
    IF Truthy(f.response) /\ Truthy(f.response.data) THEN f.response.data
    ELSE IF Truthy(f.response) THEN f.response
    ELSE IF Truthy(f.request) THEN f.request
    ELSE f

\* C4 as stated: trimError of any failure value is the first matching of:
\* response body, response, request marker, the failure itself.
C4_AnyValueUnwrapped ==
    normalized.by # "" => normalized.value = FirstMatchingRule(normalized.of)

\* C4 amended: trimError of a failure that is an Error instance is the first
\* matching of: response body (when non-empty), response, request marker, the
\* failure itself; a value that is not an Error instance is returned as is.
C4_FirstMatchingRule ==
    normalized.by # ""
        => normalized.value =
              IF normalized.of.isError
              THEN FirstMatchingRule(normalized.of)
              ELSE normalized.of

C4_Witness ==
    /\ normalized.by # ""
    /\ normalized.of.isError
    /\ Truthy(normalized.of.response)
    /\ ~Truthy(normalized.of.response.data)
    /\ Truthy(normalized.of.request)
    /\ normalized.value = normalized.of.response

RequiredNames ==
    {"applicationId", "messageId", "key", "name", "pinId", "pin", "params", "to", "text"}

Required(c) == DOMAIN c.args \cap RequiredNames

MissingParameter(name) ==
    CASE name = "applicationId" -> MissingApplicationId
      [] name = "messageId" -> MissingMessageId
      [] name = "key" -> MissingKey
      [] name = "name" -> MissingName
      [] name = "pinId" -> MissingPinId
      [] name = "pin" -> MissingPin
      [] name = "params" -> MissingParams
      [] OTHER -> Error("Please provide a " \o name \o ".")

\* C5: with a client attached, a method called with a required argument
\* absent or empty fails with the missing-parameter error naming an absent
\* argument; this covers to, text and messageId of the SMS methods.
C5_MissingParameterReported ==
    \A t \in Tasks :
        LET c == calls[t] IN
        (/\ c.svc # NoInstance
         /\ c.pc # "idle"
         /\ Truthy(c.pre.axios)
         /\ \E a \in Required(c) : ~Truthy(c.args[a]))
            => /\ c.outcome = "thrown"
               /\ \E a \in Required(c) :
                     ~Truthy(c.args[a]) /\ c.value = MissingParameter(a)

\* C6: every request with a versioned path carries version 1 or 2.
C6_PathVersionOneOrTwo ==
    \A t \in Tasks :
        LET c == calls[t] IN
        (c.sent = 1 /\ Versioned(c.req)) => PathVersion(c.req) \in {"1", "2"}

\* C7: when the HTTP call of the module-level status check fails, the caller
\* receives the normalized failure, in both entry points.
C7_StatusFailureNormalized ==
    \A t \in Tasks :
        LET c == calls[t] IN
        (c.svc = NoInstance /\ c.method = "status" /\ c.rejected # Undefined)
            => c.value = trimError(c.rejected)

\* C8: constructing an Auth, or calling the authorize helper, with a kind
\* other than 'Basic', 'App', 'IBSSO' throws the invalid-authorization-type
\* error for every key and password, and no credential or client of such a
\* kind comes into being.
C8_InvalidKindRejected ==
    /\ (last.op \in {"Auth_constructor", "Helpers_authorize"}
        /\ last.args.authType \notin ValidKinds)
          => last.error = InvalidAuthType
    /\ auth # Undefined
          => (auth.authType \in ValidKinds /\ authArgs.authType \in ValidKinds)
    /\ client # Undefined
          => IF client.by = "authorize"
             THEN client.args.authType \in ValidKinds
             ELSE client.args.auth.authType \in ValidKinds

C8_Witness ==
    /\ last.op = "Auth_constructor"
    /\ last.args.authType = CStr(OAuth)
    /\ last.args.password = CStr(<<"p">>)
    /\ last.error = InvalidAuthType
    /\ auth = Undefined
    /\ client = Undefined

\* Base64 of RFC 4648: the bits of the bytes, most significant first, cut in
\* groups of six (the last one filled with zero bits), each group a digit of
\* the alphabet, then '=' up to a multiple of four characters.
Pow2(k) == IF k = 0 THEN 1 ELSE IF k = 1 THEN 2 ELSE IF k = 2 THEN 4
           ELSE IF k = 3 THEN 8 ELSE IF k = 4 THEN 16 ELSE IF k = 5 THEN 32
           ELSE IF k = 6 THEN 64 ELSE 128

Rfc4648(bytes) ==
    LET n == Len(bytes)
        bit(k) == IF k <= 8 * n
                  THEN (bytes[((k - 1) \div 8) + 1] \div Pow2(7 - ((k - 1) % 8))) % 2
                  ELSE 0
        digits == (8 * n + 5) \div 6
        digit(j) == bit(6 * j - 5) * 32 + bit(6 * j - 4) * 16 + bit(6 * j - 3) * 8
                    + bit(6 * j - 2) * 4 + bit(6 * j - 1) * 2 + bit(6 * j)
    IN  [j \in 1..(4 * ((n + 2) \div 3)) |->
            IF j <= digits THEN B64Alphabet[digit(j) + 1] ELSE "="]

\* the password a construction used: '' when the argument was omitted
PasswordOf(arg) == IF arg = Undefined THEN <<>> ELSE arg.chars

\* the secret a kind, key and password stand for
SecretOf(authType, key, password) ==
    IF authType = CStr(Basic)
    THEN Rfc4648(BufferFrom(key.chars \o <<":">> \o PasswordOf(password)))
    ELSE key.chars

\* C9: the Authorization header of a derived client is the kind name, one
\* space and the stored secret; the stored secret is the key verbatim for App
\* and IBSSO and the encoded username:password for Basic.
C9_AuthorizationHeader ==
    /\ auth # Undefined
          => /\ auth.authType = authArgs.authType
             /\ auth.authType \in ValidKinds
             /\ auth.tokenKeyOrUsername.chars =
                   SecretOf(authArgs.authType, authArgs.tokenKeyOrUsername,
                            authArgs.password)
    /\ (client # Undefined /\ client.by = "Auth.axios")
          => /\ client.args.auth.authType \in ValidKinds
             /\ client.axios.headers.Authorization =
                   client.args.auth.authType.chars \o <<" ">>
                       \o client.args.auth.tokenKeyOrUsername.chars
    /\ (client # Undefined /\ client.by = "authorize")
          => /\ client.args.authType \in ValidKinds
             /\ client.axios.headers.Authorization =
                   client.args.authType.chars \o <<" ">>
                       \o SecretOf(client.args.authType, client.args.tokenKeyOrUsername,
                                   client.args.password)

C9_Witness ==
    /\ client # Undefined
    /\ client.by = "Auth.axios"
    /\ client.args.auth.authType = CStr(Basic)
    /\ client.axios.headers.Authorization =
          <<"B", "a", "s", "i", "c", " ", "d", "T", "p", "w">>

\* C10: a Basic credential built from username u and password p (p = '' when
\* omitted) stores the standard base64 encoding of u:p, and its fields are
\* the kind and that encoded secret only.
C10_BasicSecretEncoded ==
    (auth # Undefined /\ authArgs.authType = CStr(Basic))
        => /\ auth.authType = CStr(Basic)
           /\ auth.tokenKeyOrUsername.chars =
                 Rfc4648(BufferFrom(authArgs.tokenKeyOrUsername.chars \o <<":">>
                                    \o PasswordOf(authArgs.password)))
           /\ (authArgs.tokenKeyOrUsername.chars = <<"u">>
               /\ PasswordOf(authArgs.password) = <<"p">>)
                 => auth.tokenKeyOrUsername.chars = <<"d", "T", "p", "w">>
           /\ DOMAIN auth = {"type", "authType", "tokenKeyOrUsername"}

C10_Witness ==
    /\ auth # Undefined
    /\ authArgs.authType = CStr(Basic)
    /\ authArgs.tokenKeyOrUsername.chars = <<"u", "k">>
    /\ authArgs.password = Undefined
    /\ auth.tokenKeyOrUsername.chars = <<"d", "W", "s", "6">>

\* C11: deriving a client (Auth.axios, or the authorize helper) from a valid
\* credential never fails, whatever the content type, and the client's
\* Content-Type and Accept headers are both 'application/xml' exactly when the
\* content type is 'xml' and both 'application/json' for every other value,
\* unrecognized and missing ones included.
C11_MediaTypeOfClient ==
    /\ last.op = "Auth_axios" => (last.error = Undefined /\ client # Undefined)
    /\ client # Undefined =>
          /\ client.axios.type = "axios"
          /\ client.axios.headers.ContentType = client.axios.headers.Accept
          /\ (client.axios.headers.Accept = "application/xml")
                <=> (client.args.contentType = Str("xml"))
          /\ (client.axios.headers.Accept = "application/json")
                <=> (client.args.contentType # Str("xml"))

C11_Witness ==
    /\ client # Undefined
    /\ client.by = "Auth.axios"
    /\ authArgs.authType = CStr(App)
    /\ authArgs.tokenKeyOrUsername = CStr(<<"u", "k">>)
    /\ client.args.contentType = Str("yaml")
    /\ client.axios.headers =
          [Authorization |-> <<"A", "p", "p", " ", "u", "k">>,
           ContentType |-> "application/json",
           Accept |-> "application/json"]

\* C12: the request body of SMS single on an authorized instance carries, as
\* 'from', the instance's configured default sender when the from argument is
\* omitted or empty, and the from argument when it is non-empty.
C12_SenderOfSingle ==
    \A t \in Tasks :
        LET c == calls[t] IN
        (c.method = "single" /\ c.sent = 1) =>
            /\ Truthy(c.pre.axios)
            /\ c.req.body.from =
                  IF c.args.from = Undefined \/ c.args.from = Str("")
                  THEN c.pre.defaultFrom
                  ELSE c.args.from

C12_Witness ==
    \E t \in Tasks :
        LET c == calls[t] IN
        /\ c.method = "single"
        /\ c.module = "part_004"
        /\ c.sent = 1
        /\ c.pre.defaultFrom = Str("CompanyA")
        /\ c.args.from = Str("")
        /\ c.req.body.from = Str("CompanyA")

\* C13: once an instance is constructed, no step changes its stored
\* configuration (baseUrl, version, contentType, defaultFrom, accountKey): not
\* a method call that returns, fails locally or fails remotely, whatever
\* per-call version or sender it is given, and not the settling of a request.
C13_ConfigurationUnchanged ==
    [][\A i \in Instances :
          svc[i] # Undefined =>
              /\ svc'[i].type = svc[i].type
              /\ svc'[i].baseUrl = svc[i].baseUrl
              /\ svc'[i].version = svc[i].version
              /\ svc'[i].contentType = svc[i].contentType
              /\ svc[i].type = "SMS" => svc'[i].defaultFrom = svc[i].defaultFrom
              /\ svc[i].type = "Settings" => svc'[i].accountKey = svc[i].accountKey]_vars

C13_Witness ==
    \E t \in Tasks :
        LET c == calls[t] IN
        /\ c.method = "updateApp"
        /\ c.module = "part_003/TwoFA"
        /\ c.pc = "settled"
        /\ c.sent = 1
        /\ c.args.version = Num(1)
        /\ c.req.url[3] = "1"
        /\ c.pre.version = Num(2)
        /\ svc[c.svc].version = Num(2)

\* the errors of the local precondition checks
LocalErrors ==
    {Unauthorized, MissingApplicationId, MissingMessageId, MissingParams,
     MissingPinId, MissingPin, MissingKey, MissingName}

\* C14: an invocation either fails one of its precondition checks and issues
\* no request, or issues exactly one request; when that request is answered,
\* with a response or with a failure, the invocation settles without issuing
\* another one.
C14_ExactlyOneRequest ==
    [][\A t \in Tasks :
          LET c == calls[t]
              d == calls'[t]
          IN  d # c =>
                /\ d.pc # "idle"
                /\ c.pc # "awaiting" =>
                      \/ /\ d.pc = "settled"
                         /\ d.sent = 0
                         /\ d.req = Undefined
                         /\ d.outcome = "thrown"
                         /\ d.rejected = Undefined
                         /\ d.value \in LocalErrors
                      \/ /\ d.pc = "awaiting"
                         /\ d.sent = 1
                         /\ d.req # Undefined
                /\ c.pc = "awaiting" =>
                      /\ d.pc = "settled"
                      /\ d.sent = 1
                      /\ d.req = c.req
                      /\ d.outcome = "returned" \/ d.rejected # Undefined]_vars

C14_Witness ==
    \E t \in Tasks :
        LET c == calls[t] IN
        /\ c.method = "sendPin"
        /\ c.pc = "settled"
        /\ c.sent = 1
        /\ c.rejected # Undefined
        /\ c.outcome = "thrown"

ServiceConstructors ==
    {"TwoFA_constructor", "Settings_constructor", "SMS_constructor",
     "Doc_SMS_constructor", "Hlp_TwoFA_constructor", "Idx_SMS_constructor",
     "Idx_Settings_constructor"}

\* C15: a service constructor given a version below 1 or above 2 throws the
\* invalid-version error; given a valid (or no) version and a content type
\* other than 'json' and 'xml' it throws the invalid-content-type error; a
\* constructor that throws produces no instance, and one that does not throw
\* produces an instance with version 1 or 2 and content type json or xml.
C15_ConstructorChecks ==
    [][(last' # last /\ last'.op \in ServiceConstructors) =>
          LET v == last'.args.version
              ct == last'.args.contentType
              badVersion == v # Undefined /\ (v.num < 1 \/ v.num > 2)
              badContentType == ct # Undefined /\ ct # Str("json") /\ ct # Str("xml")
          IN  /\ badVersion => last'.error = InvalidVersion
              /\ (~badVersion /\ badContentType) => last'.error = InvalidContentType
              /\ (~badVersion /\ ~badContentType) => last'.error = Undefined
              /\ last'.error # Undefined => svc' = svc
              /\ last'.error = Undefined =>
                    \E i \in Instances :
                        /\ svc[i] = Undefined
                        /\ svc'[i].version \in {Num(1), Num(2)}
                        /\ svc'[i].contentType \in {Str("json"), Str("xml")}]_vars

C15_Witness ==
    /\ last.op = "Settings_constructor"
    /\ last.args.version = Num(3)
    /\ last.args.contentType = Str("yaml")
    /\ last.error = InvalidVersion
    /\ \A i \in Instances : svc[i] = Undefined

AuthorizeSteps ==
    {"TwoFA_authorize", "Settings_authorize", "SMS_authorize", "Doc_SMS_authorize",
     "Hlp_TwoFA_authorize", "Idx_SMS_authorize", "Idx_Settings_authorize"}

\* C16: once a client is attached to an instance, no later step sets the
\* client of that instance again.
C16_ClientSetOnce ==
    [][\A i \in Instances :
          (svc[i] # Undefined /\ Truthy(svc[i].axios))
              => svc'[i].axios = svc[i].axios]_vars

\* C16 amended: an instance is constructed without a client; its client
\* changes only in a successful authorize step, which attaches a client, and
\* an attached client is never detached.  An authorize step on an instance
\* that already has a client replaces that client.
C16_ClientSetByAuthorize ==
    [][\A i \in Instances :
          /\ (svc[i] = Undefined /\ svc'[i] # Undefined) => svc'[i].axios = Null
          /\ svc[i] # Undefined =>
                /\ svc'[i].axios # svc[i].axios =>
                      /\ last' # last
                      /\ last'.op \in AuthorizeSteps
                      /\ last'.error = Undefined
                      /\ Truthy(svc'[i].axios)
                /\ Truthy(svc[i].axios) => Truthy(svc'[i].axios)]_vars

\* the client of an instance was replaced after a call had been made with the
\* client attached before
C16_Witness ==
    \E t \in Tasks :
        LET c == calls[t] IN
        /\ c.svc \in Instances
        /\ c.pc = "settled"
        /\ c.sent = 1
        /\ Truthy(c.pre.axios)
        /\ last.op \in AuthorizeSteps
        /\ last.error = Undefined
        /\ Truthy(svc[c.svc].axios)
        /\ svc[c.svc].axios # c.pre.axios

\* the parts of a request that a method computes from its arguments
RequestOf(c) == <<c.req.verb, c.req.url, c.req.query, c.req.body>>

\* C17: with two tasks calling methods of one authorized instance in any
\* interleaving, a step of one task leaves the invocation of the other as it
\* is, and two invocations of the same method with the same arguments issue
\* the same request (path version, identifiers, sender, body) and, given the
\* same answer, return or throw the same value, whatever the other task has
\* called in between with other arguments or overrides.
C17_InvocationsIsolated ==
    /\ [](\A t \in DOMAIN calls, u \in DOMAIN calls :
            LET c == calls[t]
                d == calls[u]
            IN  (/\ t # u
                 /\ c.svc \in Instances
                 /\ d.svc = c.svc
                 /\ d.method = c.method
                 /\ d.args = c.args
                 /\ Truthy(c.pre.axios)
                 /\ Truthy(d.pre.axios))
                   => /\ d.sent = c.sent
                      /\ c.sent = 1 => RequestOf(d) = RequestOf(c)
                      /\ (/\ c.pc = "settled"
                          /\ d.pc = "settled"
                          /\ d.outcome = c.outcome
                          /\ d.rejected = c.rejected) => d.value = c.value)
    /\ [][\A t \in DOMAIN calls :
            calls'[t] # calls[t] =>
                \A u \in DOMAIN calls \ {t} : calls'[u] = calls[u]]_vars

\* both tasks have a request in flight on the same instance, one with a
\* per-call version and one falling back to the stored version
C17_Witness ==
    /\ calls[1].pc = "awaiting"
    /\ calls[2].pc = "awaiting"
    /\ calls[1].method = "getApp"
    /\ calls[2].method = "getApp"
    /\ calls[1].svc = calls[2].svc
    /\ calls[1].args.version = Num(1)
    /\ calls[2].args.version = Str("")
    /\ calls[1].req.url[3] = "1"
    /\ calls[2].req.url[3] = "2"

\* C18: the kind and the stored secret of a constructed credential are the
\* same after every step: an authorize step of a service that is given the
\* credential and derives a client from it, a method call, a settlement.
C18_CredentialUnchanged ==
    [][auth.type = "Auth" =>
          /\ auth'.type = "Auth"
          /\ auth'.authType = auth.authType
          /\ auth'.tokenKeyOrUsername = auth.tokenKeyOrUsername]_vars

C18_Witness ==
    \E t \in Tasks :
        LET c == calls[t] IN
        /\ c.module = "part_003/Settings"
        /\ c.pc = "settled"
        /\ c.sent = 1
        /\ c.req.headers.Authorization = <<"A", "p", "p", " ", "p", "k">>
        /\ auth.type = "Auth"
        /\ auth.authType = CStr(App)
        /\ auth.tokenKeyOrUsername = CStr(<<"p", "k">>)

\* C19: an invocation that fails a local precondition check throws the error
\* created by that check itself: the Unauthorized error when no client is
\* attached, else the missing-parameter error of an absent argument; this is
\* so for the methods that pass what they catch through trimError and for the
\* methods without a catch block.
C19_LocalFailureUnchanged ==
    \A t \in Tasks :
        LET c == calls[t] IN
        (c.pc = "settled" /\ c.sent = 0) =>
            /\ c.outcome = "thrown"
            /\ c.value.type = "Error"
            /\ c.value.isError
            /\ c.value.name = "Error"
            /\ c.value.response = Undefined
            /\ c.value.request = Undefined
            /\ IF ~Truthy(c.pre.axios)
               THEN c.value = Error("Unauthorized API call.")
               ELSE \E a \in Required(c) :
                       ~Truthy(c.args[a]) /\ c.value = MissingParameter(a)

C19_Witness ==
    \E t \in Tasks :
        LET c == calls[t] IN
        /\ c.method = "getApp"
        /\ c.module = "part_003/TwoFA"
        /\ c.try
        /\ c.pc = "settled"
        /\ c.sent = 0
        /\ Truthy(c.pre.axios)
        /\ c.args.applicationId = Str("")
        /\ c.value = Error("Please provide an applicationId.")

\* C20: trimError returns a value that carries neither a response nor a
\* request marker as it is, and applied once more to that result returns it
\* again.
C20_PlainValueFixed ==
    (/\ normalized.by # ""
     /\ normalized.of.response = Undefined
     /\ normalized.of.request = Undefined)
        => /\ normalized.value = normalized.of
           /\ normalized.value =
                 IF normalized.by = "index.js"
                 THEN Idx_trimError(normalized.value)
                 ELSE trimError(normalized.value)

C20_Witness ==
    /\ normalized.by = "index.js"
    /\ normalized.of.isError
    /\ normalized.of.response = Undefined
    /\ normalized.of.request = Undefined
    /\ normalized.value = normalized.of
    /\ Idx_trimError(normalized.value) = normalized.of

ReadMethods ==
    {"getApps", "getApp", "getMessageTemplates", "getApiKeys", "getApiKey",
     "getApiKeyByPublicKey", "getApiKeyByName", "getReportByMessageId"}
CreateMethods ==
    {"newApp", "newMessageTemplate", "sendPin", "resendPin", "verifyPin", "newApiKey",
     "single"}
UpdateMethods == {"updateApp", "updateMessageTemplate", "updateApiKey"}

\* C21: every request of an endpoint method carries the HTTP verb of the
\* method's kind: GET for the read methods, POST for the create and action
\* methods, PUT for the update methods, in every generation of the services;
\* every endpoint method is of one of the three kinds.
C21_VerbOfKind ==
    \A t \in Tasks :
        LET c == calls[t] IN
        (c.svc # NoInstance /\ c.sent >= 1 /\ c.method # "status") =>
            /\ c.method \in ReadMethods \cup CreateMethods \cup UpdateMethods
            /\ c.method \in ReadMethods => c.req.verb = "GET"
            /\ c.method \in CreateMethods => c.req.verb = "POST"
            /\ c.method \in UpdateMethods => c.req.verb = "PUT"

C21_Witness ==
    \E t \in Tasks :
        LET c == calls[t] IN
        /\ c.method = "resendPin"
        /\ c.module = "part_003/TwoFA"
        /\ c.sent = 1
        /\ c.req.verb = "POST"
        /\ c.req.body = Undefined

\* the Authorization header a Credential stands for
HeaderOf(a) == a.authType.chars \o <<" ">> \o a.tokenKeyOrUsername.chars

\* the Authorization header of the credentials an authorize statement was given
HeaderOfStatement(s) ==
    IF "auth" \in DOMAIN s.args
    THEN HeaderOf(s.args.auth)
    ELSE s.args.authType.chars \o <<" ">>
            \o SecretOf(s.args.authType, s.args.tokenKeyOrUsername, s.args.password)

\* C22: an authorize step on an instance, authorized before or not, attaches
\* the client of the Credential of that step; the client changes in no other
\* step; and a method invoked afterwards sends its request with the
\* Authorization header of the client attached at that moment.  So after a
\* second authorize with a different Credential every request carries the
\* header of the second Credential, never that of the first.
C22_ReauthorizeReplaces ==
    [][\A i \in Instances :
          /\ (svc[i] # Undefined /\ last' # last /\ last'.op \in AuthorizeSteps
              /\ last'.error = Undefined)
                => svc'[i].axios.headers.Authorization = HeaderOfStatement(last')
          /\ (svc[i] # Undefined /\ svc'[i].axios # svc[i].axios)
                => (last' # last /\ last'.op \in AuthorizeSteps)
          /\ \A t \in DOMAIN calls :
                (/\ calls'[t] # calls[t]
                 /\ calls[t].pc # "awaiting"
                 /\ calls'[t].svc = i
                 /\ calls'[t].sent >= 1)
                   => /\ svc'[i] = svc[i]
                      /\ calls'[t].req.headers.Authorization =
                            svc[i].axios.headers.Authorization]_vars

\* task 1 has sent a request with the first Credential, the instance was
\* authorized again with another one, and task 2 has sent a request since
C22_Witness ==
    /\ calls[1].svc \in Instances
    /\ calls[2].svc = calls[1].svc
    /\ calls[1].module = "part_003/TwoFA"
    /\ calls[1].sent = 1
    /\ calls[2].sent = 1
    /\ calls[1].req.headers.Authorization = <<"A", "p", "p", " ", "p", "k">>
    /\ calls[2].req.headers.Authorization = <<"I", "B", "S", "S", "O", " ", "p", "k">>
    /\ auth.authType = CStr(IBSSO)
    /\ last.op = "TwoFA_authorize"
    /\ svc[calls[1].svc].axios = calls[2].pre.axios
    /\ svc[calls[1].svc].axios.headers.Authorization = HeaderOf(auth)

\* the media type of a response format
MediaTypeOf(contentType) ==
    IF contentType = Str("json") THEN "application/json"
    ELSE IF contentType = Str("xml") THEN "application/xml"
    ELSE "none"

\* C23: with one Credential authorizing several service instances, the client
\* of each authorized instance carries the Content-Type and Accept of that
\* instance's own format and the Authorization header of the shared
\* Credential; and a step that authorizes or calls one instance leaves the
\* client and the configuration of every other instance as they are.
C23_SharedCredential ==
    /\ [](\A i \in DOMAIN svc :
            (svc[i] # Undefined /\ Truthy(svc[i].axios)) =>
                /\ svc[i].axios.headers.Authorization = HeaderOf(auth)
                /\ svc[i].axios.headers.ContentType = MediaTypeOf(svc[i].contentType)
                /\ svc[i].axios.headers.Accept = MediaTypeOf(svc[i].contentType))
    /\ [][\A i \in DOMAIN svc :
            (\/ svc'[i] # svc[i]
             \/ \E t \in DOMAIN calls : calls'[t] # calls[t] /\ calls'[t].svc = i)
                => \A j \in DOMAIN svc \ {i} : svc'[j] = svc[j]]_vars

\* a JSON TwoFA and an XML SMS authorized by the same Credential, and a
\* request of the SMS in flight
C23_Witness ==
    /\ svc[1] # Undefined
    /\ svc[2] # Undefined
    /\ svc[1].type = "TwoFA"
    /\ svc[2].type = "SMS"
    /\ svc[1].contentType = Str("json")
    /\ svc[2].contentType = Str("xml")
    /\ Truthy(svc[1].axios)
    /\ Truthy(svc[2].axios)
    /\ svc[1].axios.headers.Authorization = <<"A", "p", "p", " ", "p", "k">>
    /\ svc[2].axios.headers.Authorization = svc[1].axios.headers.Authorization
    /\ svc[1].axios.headers.Accept = "application/json"
    /\ svc[2].axios.headers.Accept = "application/xml"
    /\ \E t \in DOMAIN calls :
          /\ calls[t].svc = 2
          /\ calls[t].pc = "awaiting"
          /\ calls[t].req.headers.ContentType = "application/xml"

\* the arguments whose presence a method checks: those of the TwoFA and
\* Settings methods; the SMS methods check the client only
CheckedArguments(c) == IF c.pre.type = "SMS" THEN {} ELSE Required(c)

\* a precondition check of the invocation fails: the client check of a method
\* that uses the attached client, or the presence check of an argument
FailsPrecondition(c) ==
    \/ ~IsInstanceStatus(c) /\ ~Truthy(c.pre.axios)
    \/ \E a \in CheckedArguments(c) : ~Truthy(c.args[a])

C25_ClientMediaType ==
    /\ \A i \in Instances :
          svc[i] # Undefined =>
              /\ svc[i].contentType \in {Str("json"), Str("xml")}
              /\ Truthy(svc[i].axios) =>
                    /\ svc[i].axios.headers.ContentType = MediaTypeOf(svc[i].contentType)
                    /\ svc[i].axios.headers.Accept = MediaTypeOf(svc[i].contentType)
    /\ \A t \in Tasks :
          LET c == calls[t] IN
          (c.svc # NoInstance /\ c.sent >= 1 /\ ~IsInstanceStatus(c)) =>
              /\ c.req.headers.ContentType = MediaTypeOf(c.pre.contentType)
              /\ c.req.headers.Accept = MediaTypeOf(c.pre.contentType)

\* an XML SMS of index.js is authorized and has a request in flight
C25_Witness ==
    \E i \in Instances, t \in Tasks :
        /\ svc[i] # Undefined
        /\ svc[i].type = "SMS"
        /\ svc[i].module = "index.js"
        /\ svc[i].contentType = Str("xml")
        /\ Truthy(svc[i].axios)
        /\ svc[i].axios.headers.ContentType = "application/xml"
        /\ svc[i].axios.headers.Accept = "application/xml"
        /\ calls[t].svc = i
        /\ calls[t].pc = "awaiting"
        /\ calls[t].req.headers.Accept = "application/xml"

\* the authorize steps that take (authType, tokenKeyOrUsername, password)
DirectAuthorizeSteps == {"Hlp_TwoFA_authorize", "Idx_SMS_authorize", "Idx_Settings_authorize"}

\* C26: an authorize step that is given the credentials directly and a kind
\* other than 'Basic', 'App', 'IBSSO' throws the invalid-authorization-type
\* error and leaves the instance as it was: without a client if it had none,
\* with its previous client if it had one.
C26_InvalidKindKeepsClient ==
    [][(/\ last' # last
        /\ last'.op \in DirectAuthorizeSteps
        /\ last'.args.authType \notin ValidKinds)
          => /\ last'.error = InvalidAuthType
             /\ svc' = svc
             /\ \A i \in Instances : svc'[i].axios = svc[i].axios]_vars

\* an authorized SMS of index.js after an authorize call with kind 'OAuth'
C26_Witness ==
    \E i \in Instances :
        /\ svc[i] # Undefined
        /\ svc[i].module = "index.js"
        /\ svc[i].type = "SMS"
        /\ last.op = "Idx_SMS_authorize"
        /\ last.args.authType = CStr(OAuth)
        /\ last.error = InvalidAuthType
        /\ Truthy(svc[i].axios)
        /\ svc[i].axios.headers.Authorization =
              <<"I", "B", "S", "S", "O", " ", "p", "k">>

\* C27: an instance that has a client attached has one after every step: an
\* authorize call that succeeds or throws, a method call, a local failure, a
\* request that is answered or rejected; the client is never null again.
C27_AuthorizedAbsorbing ==
    [][\A i \in Instances :
          (svc[i] # Undefined /\ svc[i].axios # Null)
              => /\ svc'[i] # Undefined
                 /\ svc'[i].axios # Null
                 /\ svc'[i].axios.type = "axios"]_vars

\* an authorized instance after a rejected request and a failed authorize call
C27_Witness ==
    \E i \in Instances, t \in Tasks :
        LET c == calls[t] IN
        /\ svc[i] # Undefined
        /\ c.svc = i
        /\ c.pc = "settled"
        /\ c.sent = 1
        /\ c.rejected # Undefined
        /\ c.pre.axios # Null
        /\ last.op \in AuthorizeSteps
        /\ last.error = InvalidAuthType
        /\ svc[i].axios = c.pre.axios

\* C28: trimError returns a failure value that is not an Error instance as it
\* is, whether it carries a response (with or without a body), a request
\* marker, both or neither; this holds for both copies of trimError.
C28_NonErrorUnchanged ==
    (normalized.by # "" /\ ~normalized.of.isError)
        => /\ normalized.value = normalized.of
           /\ trimError(normalized.of) = normalized.of
           /\ Idx_trimError(normalized.of) = normalized.of

\* a plain object with a response body and a request marker went through
\* trimError of helpers.js
C28_Witness ==
    /\ normalized.by = "helpers.js"
    /\ normalized.of.type = "Object"
    /\ ~normalized.of.isError
    /\ Truthy(normalized.of.response)
    /\ Truthy(normalized.of.response.data)
    /\ Truthy(normalized.of.request)
    /\ normalized.value = normalized.of
    /\ normalized.value # normalized.of.response.data

====
